---- MODULE Spec2Model ----
(***************************************************************************)
(* Model of the simulation core of firewithfire3d.py: the cell grid, the   *)
(* fire-spread automaton (spread_fire, age_fire, update_controlled_burns), *)
(* the counter-burn command (start_controlled_burn), the victory / defeat  *)
(* evaluation of update and the episode life cycle (setup_game, pause,     *)
(* restart_game, reset_for_menu).                                          *)
(*                                                                         *)
(* Conventions.                                                            *)
(*  - A cell is <<x, y>>; grid[<<x, y>>] is the code's self.grid[y][x].     *)
(*  - Time: an update receives dt seconds and the code only ever uses      *)
(*    dt * 60; the model's d is that product, drawn from naturals.         *)
(*  - FLAMMABILITY is kept in tenths (0.8 is 8), so that every probability *)
(*    is an exact fraction num/den.                                        *)
(*  - random.random() < p is a nondeterministic choice over the outcomes   *)
(*    the draw allows: never when p <= 0, always when p >= 1 (the draw is  *)
(*    in [0, 1)), both otherwise.                                          *)
(*  - Rendering state (ash_colors, particles, sprites, menu fade) is not   *)
(*    part of the model.                                                   *)
(***************************************************************************)
EXTENDS Integers, Sequences, FiniteSets, TLC

(***************************************************************************)
(* Bounds of the model.                                                    *)
(***************************************************************************)
\* The code's grid is 80 x 45 (WINDOW_WIDTH // GRID_SIZE, WINDOW_HEIGHT //
\* GRID_SIZE); the model keeps the names on a small grid.
GRID_WIDTH == 3
GRID_HEIGHT == 3
\* Generated terrains are drawn from the family TerrainOf(0..MaxSeed).
MaxSeed == 3

(***************************************************************************)
(* Program constants.                                                      *)
(***************************************************************************)
MENU_STATE == 0
GAME_STATE == 1
PAUSED_STATE == 2

DIFFICULTY_EASY_SPREAD == 55
DIFFICULTY_NORMAL_SPREAD == 35
DIFFICULTY_HARD_SPREAD == 20

FOREST_DENSE == 0
FOREST_LIGHT == 1
GRASSLAND == 2
FIELD == 3
HOUSE == 4
WATER == 5
BURNT == 6
FIRE == 7
CONTROLLED_BURN == 8

MAX_ASH_TIMER == 420

CellStates == FOREST_DENSE..CONTROLLED_BURN

\* FLAMMABILITY in tenths.
FLAMMABILITY ==
    [k \in CellStates |->
        CASE k = FOREST_DENSE -> 8
          [] k = FOREST_LIGHT -> 6
          [] k = GRASSLAND -> 4
          [] k = FIELD -> 3
          [] k = HOUSE -> 9
          [] k = WATER -> 0
          [] k = BURNT -> 0
          [] k = FIRE -> 10
          [] k = CONTROLLED_BURN -> 10]

\* A spread list that lacks CONTROLLED_BURN.
NoSpreadToShort == {FIRE, BURNT, WATER}

\* A variant of the list of burnable_left and burnable_rem that also leaves
\* houses out.
NotBurnableOrHouse == {WATER, FIRE, BURNT, CONTROLLED_BURN, HOUSE}

\* The lists the code tests membership in: spread_fire's, the one of
\* check_victory_condition, the one of burnable_left and burnable_rem,
\* start_controlled_burn's and the splash of setup_game.
NoSpreadTo == {FIRE, BURNT, CONTROLLED_BURN, WATER}
NoVictoryBlock == {FIRE, BURNT, CONTROLLED_BURN, WATER}
NotBurnable == {WATER, FIRE, BURNT, CONTROLLED_BURN}
NoBurnOn == {FIRE, BURNT, CONTROLLED_BURN, WATER, HOUSE}
NoSplashOn == {WATER, FIRE, BURNT}

Difficulties == {"Easy", "Normal", "Hard"}

\* The values of dt * 60 an update may receive.
Deltas == {50, 420}

(***************************************************************************)
(* Helpers.                                                                *)
(***************************************************************************)
Cells == (0..(GRID_WIDTH - 1)) \X (0..(GRID_HEIGHT - 1))

InGrid(x, y) == 0 <= x /\ x < GRID_WIDTH /\ 0 <= y /\ y < GRID_HEIGHT

Min(a, b) == IF a < b THEN a ELSE b
Max(a, b) == IF a > b THEN a ELSE b

\* Outcomes of random.random() < num/den (den > 0).
Draw(num, den) ==
    IF num <= 0 THEN {FALSE} ELSE IF num >= den THEN {TRUE} ELSE BOOLEAN

\* Row-major scan order of "for y in range(GRID_HEIGHT): for x in
\* range(GRID_WIDTH)".
ScanOrder ==
    [i \in 1..(GRID_WIDTH * GRID_HEIGHT) |->
        <<(i - 1) % GRID_WIDTH, (i - 1) \div GRID_WIDTH>>]

\* Offsets in the order of "for dx in [-1, 0, 1]: for dy in [-1, 0, 1]",
\* (0, 0) skipped.
Offsets ==
    << <<-1, -1>>, <<-1, 0>>, <<-1, 1>>, <<0, -1>>, <<0, 1>>,
       <<1, -1>>, <<1, 0>>, <<1, 1>> >>

\* A variant that also reaches the cells two steps away, as
\* "for dx in [-2, -1, 0, 1, 2]" would.
get_neighbors_wide(x, y) ==
    LET all == [i \in 1..16 |->
                   IF i <= 8 THEN <<x + Offsets[i][1], y + Offsets[i][2]>>
                   ELSE <<x + 2 * Offsets[i - 8][1], y + 2 * Offsets[i - 8][2]>>]
        inside(c) == InGrid(c[1], c[2])
    IN  SelectSeq(all, inside)

get_neighbors(x, y) ==
    LET all == [i \in 1..8 |-> <<x + Offsets[i][1], y + Offsets[i][2]>>]
        inside(c) == InGrid(c[1], c[2])
    IN  SelectSeq(all, inside)

Range(s) == {s[i] : i \in 1..Len(s)}

Neighbors(c) == Range(get_neighbors(c[1], c[2]))

\* The grid after "self.grid[y][x] = k" with c = (x, y).
SetCell(g, c, k) == [x \in DOMAIN g |-> IF x = c THEN k ELSE g[x]]

CountCells(g, kinds) == Cardinality({c \in Cells : g[c] \in kinds})

(***************************************************************************)
(* Terrain: the grid generate_terrain leaves.  The noise and the carving   *)
(* are random; the main specification draws the generated grid from a      *)
(* bounded family of grids over the six kinds generation produces.         *)
(***************************************************************************)
GeneratedKinds == {FOREST_DENSE, FOREST_LIGHT, GRASSLAND, FIELD, HOUSE, WATER}

LandKinds == <<GRASSLAND, FOREST_DENSE, FIELD, FOREST_LIGHT>>

\* Four shapes, each in the variants seed \div 4 of its land kinds:
\*   0  a strip of land along the top edge, water elsewhere;
\*   1  a 2 x 2 block of land in a corner, one cell of it a house;
\*   2  single land cells along the top edge, each ringed by water;
\*   3  one land cell off the border, water elsewhere.
KindAt(seed, x, y) ==
    LET shape == seed % 4
        land == LandKinds[((x + y + (seed \div 4)) % Len(LandKinds)) + 1]
    IN  CASE shape = 0 -> IF y = 0 THEN land ELSE WATER
          [] shape = 1 -> IF x = 1 /\ y = 0 THEN HOUSE
                          ELSE IF x <= 1 /\ y <= 1 THEN land ELSE WATER
          [] shape = 2 -> IF y = 0 /\ x % 2 = 0 THEN land ELSE WATER
          [] shape = 3 -> IF x = 1 /\ y = 1 THEN land ELSE WATER

TerrainOf(seed) == [c \in Cells |-> KindAt(seed, c[1], c[2])]

Terrains == {TerrainOf(s) : s \in 0..MaxSeed}

(***************************************************************************)
(* State.                                                                  *)
(***************************************************************************)
VARIABLES
    grid,                  \* self.grid
    burnt_timers,          \* self.burnt_timers
    game_state,            \* self.game_state
    game_over,             \* self.game_over
    victory,               \* self.victory
    fire_spread_timer,     \* self.fire_spread_timer
    fire_spread_delay,     \* self.fire_spread_delay
    difficulty,            \* self.difficulty
    total_burnable,        \* self.total_burnable
    controlled_burns_used, \* self.controlled_burns_used
    houses_saved,          \* self.houses_saved
    forest_saved,          \* self.forest_saved, as <<num, den>>: 100*num/den
    score,                 \* self.score
    terrain,               \* history: the grid as generate_terrain left it
    spread_ran,            \* history: the last update called spread_fire
    fixed_d,               \* the dt * 60 of every update, where it is fixed
    age_updates,           \* history: playing updates each cell spent as fire
    clock,                 \* history: updates and spread ticks of the episode
    scan,                  \* an evaluation of the ignition scan, where probed
    op                     \* an operation followed step by step, where it is

\* The program's state with the terrain it was generated from.
simvars ==
    <<grid, burnt_timers, game_state, game_over, victory, fire_spread_timer,
      fire_spread_delay, difficulty, total_burnable, controlled_burns_used,
      houses_saved, forest_saved, score, terrain, spread_ran>>

\* What only the specifications of single operations use.
auxvars == <<fixed_d, age_updates, clock, scan, op>>

vars == <<simvars, auxvars>>

ZeroTimers == [c \in Cells |-> 0]

(***************************************************************************)
(* setup_game.                                                             *)
(***************************************************************************)
\* A variant that leaves the houses out of the count.
TotalBurnableNoHouses(g) == CountCells(g, CellStates \ {WATER, HOUSE})

\* total_burnable as setup_game counts it: the cells that are not water.
TotalBurnable(g) == CountCells(g, CellStates \ {WATER})

\* A variant that draws a source from the whole grid.
BorderCellsAll == Cells

BorderCells ==
    {<<x, 0>> : x \in 0..(GRID_WIDTH - 1)}
        \cup {<<GRID_WIDTH - 1, y>> : y \in 0..(GRID_HEIGHT - 1)}
        \cup {<<x, GRID_HEIGHT - 1>> : x \in 0..(GRID_WIDTH - 1)}
        \cup {<<0, y>> : y \in 0..(GRID_HEIGHT - 1)}

\* A variant that ignores the difficulty.
SpreadDelayOfNormal(diff) == DIFFICULTY_NORMAL_SPREAD

SpreadDelayOf(diff) ==
    IF diff = "Easy" THEN DIFFICULTY_EASY_SPREAD
    ELSE IF diff = "Hard" THEN DIFFICULTY_HARD_SPREAD
    ELSE DIFFICULTY_NORMAL_SPREAD

\* A variant that accepts every cell not yet burning.
SourceOkAny(g, c) == g[c] # FIRE

\* A border cell an attempt accepts as a fire source.
SourceOk(g, c) == FLAMMABILITY[g[c]] > 0 /\ g[c] # FIRE

\* One splash draw around the source s, from every grid of G.
SplashDraw(G, s) ==
    {LET f == <<Max(0, Min(GRID_WIDTH - 1, s[1] + dx)),
                Max(0, Min(GRID_HEIGHT - 1, s[2] + dy))>>
     IN  IF g[f] \notin NoSplashOn /\ FLAMMABILITY[g[f]] > 0
         THEN SetCell(g, f, FIRE)
         ELSE g
     : g \in G, dx \in -1..1, dy \in -1..1}

\* random.randint(1, 3) splash draws.
Splash(g, s) ==
    LET one == SplashDraw({g}, s)
        two == SplashDraw(one, s)
        three == SplashDraw(two, s)
    IN  one \cup two \cup three

\* One pass of "for _ in range(2)": up to 100 attempts, each drawing a border
\* cell.  The pass ignites the first accepted draw; it ends without a source
\* when every attempt drew a refused cell, which some outcome of the draws
\* does whenever a refused border cell exists.
PlaceSource(g) ==
    UNION {Splash(SetCell(g, s, FIRE), s) :
              s \in {b \in BorderCells : SourceOk(g, b)}}
        \cup (IF \E b \in BorderCells : ~SourceOk(g, b) THEN {g} ELSE {})

\* The grids setup_game may leave from g.
setup_game(g) == UNION {PlaceSource(g1) : g1 \in PlaceSource(g)}

\* generate_terrain followed by setup_game: the terrain and the grid of a new
\* episode.
FreshEpisodes ==
    UNION {{[terrain |-> t, grid |-> g] : g \in setup_game(t)} : t \in Terrains}

(***************************************************************************)
(* spread_fire.                                                            *)
(***************************************************************************)
RECURSIVE ScanNeighbors(_, _, _, _)
\* The inner loop over get_neighbors of one fire cell: acc is the set of
\* values new_fires may have so far, g the grid the loop reads.
ScanNeighbors(g, ns, i, acc) ==
    IF i > Len(ns) THEN acc
    ELSE LET n == ns[i]
             terrain_n == g[n]
         IN  ScanNeighbors(g, ns, i + 1,
                IF terrain_n \notin NoSpreadTo
                THEN {IF b THEN S \cup {n} ELSE S :
                         S \in acc,
                         b \in Draw(FLAMMABILITY[terrain_n] * 39, 1000)}
                ELSE acc)

RECURSIVE ScanFires(_, _, _)
\* The scan of the whole grid; the grid is not written during the scan.
ScanFires(g, k, acc) ==
    IF k > Len(ScanOrder) THEN acc
    ELSE LET c == ScanOrder[k]
         IN  ScanFires(g, k + 1,
                IF g[c] = FIRE
                THEN ScanNeighbors(g, get_neighbors(c[1], c[2]), 1, acc)
                ELSE acc)

\* A variant that writes each ignition at once, so that the scan reads it.
RECURSIVE ScanLive(_, _, _)
ScanLive(k, G, dummy) ==
    IF k > Len(ScanOrder) THEN G
    ELSE LET c == ScanOrder[k]
         IN  ScanLive(k + 1,
                UNION {IF g[c] = FIRE
                       THEN {[x \in Cells |-> IF x \in S THEN FIRE ELSE g[x]] :
                                S \in ScanNeighbors(g, get_neighbors(c[1], c[2]),
                                                    1, {{}})}
                       ELSE {g} : g \in G},
                dummy)

spread_fire_live(g, bt) ==
    {[grid |-> h,
      timers |-> [c \in Cells |->
                     IF h[c] = FIRE /\ g[c] # FIRE THEN 0 ELSE bt[c]]] :
        h \in ScanLive(1, {g}, 0)}

\* The outcomes of spread_fire on grid g with timers bt: the pending
\* ignitions are committed after the scan, each with its timer reset.
spread_fire(g, bt) ==
    {[grid |-> [c \in Cells |-> IF c \in S THEN FIRE ELSE g[c]],
      timers |-> [c \in Cells |-> IF c \in S THEN 0 ELSE bt[c]]] :
        S \in ScanFires(g, 1, {{}})}

(***************************************************************************)
(* start_controlled_burn.                                                  *)
(***************************************************************************)
BurnSizes == 10..20

RECURSIVE BurnNeighbors(_, _, _)
\* The loop over get_neighbors of the popped cell, from every state of S; a
\* state is the grid, the queue and the remaining burn_size.
BurnNeighbors(S, ns, i) ==
    IF i > Len(ns) THEN S
    ELSE LET n == ns[i]
         IN  BurnNeighbors(
                UNION {{IF st.grid[n] \notin NoBurnOn /\ b /\ st.size > 0
                        THEN [grid |-> SetCell(st.grid, n, CONTROLLED_BURN),
                              queue |-> Append(st.queue, n),
                              size |-> st.size - 1]
                        ELSE st :
                           b \in Draw(FLAMMABILITY[st.grid[n]] * 4, 100)} :
                       st \in S},
                ns, i + 1)

RECURSIVE BurnLoop(_)
\* "while burn_queue and burn_size > 0": the grids the loop may end with.
BurnLoop(S) ==
    LET done == {st \in S : st.queue = <<>> \/ st.size <= 0}
        live == S \ done
    IN  {st.grid : st \in done}
            \cup (IF live = {} THEN {}
                  ELSE BurnLoop(UNION {
                          LET c == Head(st.queue)
                          IN  BurnNeighbors({[st EXCEPT !.queue = Tail(st.queue)]},
                                            get_neighbors(c[1], c[2]), 1) :
                          st \in live}))

\* A variant whose exclusion list lacks HOUSE.
start_controlled_burn_house(g, used, x, y) ==
    IF ~InGrid(x, y) THEN {[grid |-> g, used |-> used]}
    ELSE IF g[<<x, y>>] \in NoSpreadTo THEN {[grid |-> g, used |-> used]}
    ELSE {[grid |-> h, used |-> used + 1] :
             h \in BurnLoop({[grid |-> SetCell(g, <<x, y>>, CONTROLLED_BURN),
                              queue |-> << <<x, y>> >>,
                              size |-> b] : b \in BurnSizes})}

\* A variant that counts the burn before it tests the target.
start_controlled_burn_count(g, used, x, y) ==
    IF ~InGrid(x, y) THEN {[grid |-> g, used |-> used]}
    ELSE IF g[<<x, y>>] \in NoBurnOn THEN {[grid |-> g, used |-> used + 1]}
    ELSE {[grid |-> h, used |-> used + 1] :
             h \in BurnLoop({[grid |-> SetCell(g, <<x, y>>, CONTROLLED_BURN),
                              queue |-> << <<x, y>> >>,
                              size |-> b] : b \in BurnSizes})}

\* The outcomes of start_controlled_burn(x, y) on grid g with
\* controlled_burns_used = used.
start_controlled_burn(g, used, x, y) ==
    IF ~InGrid(x, y) THEN {[grid |-> g, used |-> used]}
    ELSE IF g[<<x, y>>] \in NoBurnOn THEN {[grid |-> g, used |-> used]}
    ELSE {[grid |-> h, used |-> used + 1] :
             h \in BurnLoop({[grid |-> SetCell(g, <<x, y>>, CONTROLLED_BURN),
                              queue |-> << <<x, y>> >>,
                              size |-> b] : b \in BurnSizes})}

(***************************************************************************)
(* age_fire, update_controlled_burns.                                      *)
(***************************************************************************)
\* A variant that turns a cell to ash only once its timer exceeds the limit.
age_fire_late(g, bt, d) ==
    [grid |-> [c \in Cells |->
                  IF g[c] = FIRE /\ bt[c] + d > MAX_ASH_TIMER
                  THEN BURNT ELSE g[c]],
     timers |-> [c \in Cells |->
                    IF g[c] = FIRE
                    THEN (IF bt[c] + d > MAX_ASH_TIMER THEN 0 ELSE bt[c] + d)
                    ELSE bt[c]]]

\* A variant that counts updates: the counter grows by 1 whatever dt is.
age_fire_frame(g, bt, d) ==
    [grid |-> [c \in Cells |->
                  IF g[c] = FIRE /\ bt[c] + 1 >= MAX_ASH_TIMER
                  THEN BURNT ELSE g[c]],
     timers |-> [c \in Cells |->
                    IF g[c] = FIRE
                    THEN (IF bt[c] + 1 >= MAX_ASH_TIMER THEN 0 ELSE bt[c] + 1)
                    ELSE bt[c]]]

\* A variant that leaves the counter of a cell that turns to ash as it is.
age_fire_stale(g, bt, d) ==
    [grid |-> [c \in Cells |->
                  IF g[c] = FIRE /\ bt[c] + d >= MAX_ASH_TIMER
                  THEN BURNT ELSE g[c]],
     timers |-> [c \in Cells |-> IF g[c] = FIRE THEN bt[c] + d ELSE bt[c]]]

\* A variant that zeroes the counter at the limit but leaves the cell fire.
age_fire_unburnt(g, bt, d) ==
    [grid |-> g,
     timers |-> [c \in Cells |->
                    IF g[c] = FIRE
                    THEN (IF bt[c] + d >= MAX_ASH_TIMER THEN 0 ELSE bt[c] + d)
                    ELSE bt[c]]]

\* age_fire reads self.dt, which run() sets to the dt it passes to update.
age_fire(g, bt, d) ==
    [grid |-> [c \in Cells |->
                  IF g[c] = FIRE /\ bt[c] + d >= MAX_ASH_TIMER
                  THEN BURNT ELSE g[c]],
     timers |-> [c \in Cells |->
                    IF g[c] = FIRE
                    THEN (IF bt[c] + d >= MAX_ASH_TIMER THEN 0 ELSE bt[c] + d)
                    ELSE bt[c]]]

RECURSIVE ScanBurns(_, _, _)
ScanBurns(G, k, d) ==
    IF k > Len(ScanOrder) THEN G
    ELSE LET c == ScanOrder[k]
         IN  ScanBurns({IF g[c] = CONTROLLED_BURN /\ b
                        THEN SetCell(g, c, BURNT) ELSE g :
                           g \in G, b \in Draw(2 * d, 10)},
                       k + 1, d)

\* A variant whose roll is not scaled by dt: random.random() < 0.2.
update_controlled_burns_unscaled(g, d) == ScanBurns({g}, 1, 1)

\* The grids update_controlled_burns(dt) may leave from g.
update_controlled_burns(g, d) == ScanBurns({g}, 1, d)

(***************************************************************************)
(* check_victory_condition, calculate_stats.                               *)
(***************************************************************************)
\* has_fire of check_victory_condition; can_spread is computed by the code
\* and never read.
HasFire(g) == \E c \in Cells : g[c] = FIRE

CanSpread(g) ==
    \E c \in Cells :
        /\ g[c] = FIRE
        /\ \E n \in Neighbors(c) :
              g[n] \notin NoVictoryBlock /\ FLAMMABILITY[g[n]] > 0

\* A variant that reads can_spread: a fire that cannot spread is a victory
\* too.
check_victory_condition_contained(g) == ~HasFire(g) \/ ~CanSpread(g)

\* A variant that also wants something to have burnt.
check_victory_condition_spent(g) == ~HasFire(g) /\ \E c \in Cells : g[c] = BURNT

\* The value check_victory_condition returns (and then victory is set).
check_victory_condition(g) == ~HasFire(g)

BurnableLeft(g) == CountCells(g, CellStates \ NotBurnable)

\* burnable_left < self.total_burnable * 0.15
DefeatCheck(g, total) == BurnableLeft(g) * 100 < total * 15

HousesRemaining(g) == CountCells(g, {HOUSE})

\* The code computes the score in 64-bit floating point:
\* (burnable_rem / total_burnable) * 100, then int(houses * 100 + that * 10).
\* Where 1000 * burnable_rem / total_burnable is no integer the result is
\* the integer part of the exact value.  Where it is an integer k, the
\* product (k / 1000) * 100 * 10 is k itself or the double just below k;
\* ShortPerMille holds the k in 0..1000 for which it is the double below.
ShortPerMille ==
    {11, 22, 44, 59, 88, 103, 118, 119, 141, 145, 173, 176, 181, 206, 211,
     236, 238, 241, 282, 285, 290, 346, 347, 351, 352, 357, 362, 407, 411,
     412, 417, 422, 427, 471, 472, 476, 477, 482, 487, 564, 565, 569, 570,
     575, 580, 689, 692, 694, 697, 699, 702, 704, 709, 714, 719, 724, 729,
     814, 817, 819, 822, 824, 827, 829, 834, 839, 844, 849, 854, 939, 942,
     944, 947, 949, 952, 954, 959, 964, 969, 974, 979}

\* int(houses_saved * 100 + forest_saved * 10), forest_saved = 100*num/den,
\* as the floating-point evaluation gives it: the integer part of the exact
\* value, or one less where forest_saved * 10 is the double just below an
\* integer k and houses * 100 + k lies in the same power-of-two range as k
\* (2^j < n <= 2^(j + 1), where the doubles have one spacing), so that the
\* sum is not rounded back up to the integer.
ScoreOf(houses, fs) ==
    LET exact == (houses * 100 * fs[2] + 1000 * fs[1]) \div fs[2]
        k == (1000 * fs[1]) \div fs[2]
        Binade(n) == CHOOSE j \in 0..29 : 2^j < n /\ n <= 2^(j + 1)
        short == /\ (1000 * fs[1]) % fs[2] = 0
                 /\ k \in ShortPerMille
                 /\ Binade(k) = Binade(houses * 100 + k)
    IN  IF short THEN exact - 1 ELSE exact

\* calculate_stats, given what its two scans count.
calculate_stats(houses_rem, burnable_rem, total, fs0) ==
    LET fs == IF total > 0 THEN <<burnable_rem, total>> ELSE fs0
    IN  [houses_saved |-> houses_rem,
         forest_saved |-> fs,
         score |-> ScoreOf(houses_rem, fs)]

\* self.score before calculate_stats has assigned it: __init__ creates no
\* such attribute, and reading it raises AttributeError.
NO_SCORE == -1

(***************************************************************************)
(* Initial state: after __init__, which ends in generate_terrain; the game *)
(* shows the menu.                                                         *)
(***************************************************************************)
InitSim ==
    /\ terrain \in Terrains
    /\ grid = terrain
    /\ burnt_timers = ZeroTimers
    /\ game_state = MENU_STATE
    /\ game_over = FALSE
    /\ victory = FALSE
    /\ fire_spread_timer = 0
    /\ fire_spread_delay = DIFFICULTY_NORMAL_SPREAD
    /\ difficulty = "Normal"
    /\ total_burnable = 0
    /\ controlled_burns_used = 0
    /\ houses_saved = 0
    /\ forest_saved = <<0, 1>>
    /\ score = NO_SCORE
    /\ spread_ran = FALSE

\* No update yet and no spread tick.
ZeroClock ==
    [updates |-> 0, since |-> 0, spreads |-> 0, unit_timer |-> 0,
     unit_spreads |-> 0]

Init ==
    /\ InitSim
    /\ fixed_d = 0
    /\ age_updates = ZeroTimers
    /\ clock = ZeroClock
    /\ scan = <<>>
    /\ op = <<>>

(***************************************************************************)
(* Menu.                                                                   *)
(***************************************************************************)
\* The difficulty buttons of the menu.
SetDifficulty(diff) ==
    /\ game_state = MENU_STATE
    /\ difficulty' = diff
    /\ UNCHANGED <<grid, burnt_timers, game_state, game_over, victory,
                   fire_spread_timer, fire_spread_delay, total_burnable,
                   controlled_burns_used, houses_saved, forest_saved, score,
                   terrain, spread_ran,
                   auxvars>>

\* start_game_from_menu: setup_game on the terrain the menu shows.
start_game_from_menu ==
    /\ game_state = MENU_STATE
    /\ game_state' = GAME_STATE
    /\ total_burnable' = TotalBurnable(grid)
    /\ fire_spread_delay' = SpreadDelayOf(difficulty)
    /\ \E e \in FreshEpisodes : e.terrain = grid /\ grid' = e.grid
    /\ spread_ran' = FALSE
    /\ UNCHANGED <<burnt_timers, game_over, victory, fire_spread_timer,
                   difficulty, controlled_burns_used, houses_saved,
                   forest_saved, score, terrain>>

StartGame == start_game_from_menu /\ UNCHANGED auxvars

(***************************************************************************)
(* update(dt), with d = dt * 60.                                           *)
(***************************************************************************)
\* The body of "if not self.game_over" in update.
update_playing(d) ==
    /\ UNCHANGED <<game_state, fire_spread_delay, difficulty, total_burnable,
                   controlled_burns_used, terrain>>
    /\ LET timer1 == fire_spread_timer + d
           tick == timer1 >= fire_spread_delay
           aged == age_fire(grid, burnt_timers, d)
       IN  \E spread \in (IF tick THEN spread_fire(aged.grid, aged.timers)
                          ELSE {aged}) :
           \E g2 \in update_controlled_burns(spread.grid, d) :
              LET defeat == tick /\ DefeatCheck(spread.grid, total_burnable)
                  won == check_victory_condition(g2)
                  st == calculate_stats(HousesRemaining(g2), BurnableLeft(g2),
                                        total_burnable, forest_saved)
              IN  /\ fire_spread_timer' = IF tick THEN 0 ELSE timer1
                  /\ spread_ran' = tick
                  /\ grid' = g2
                  /\ burnt_timers' = spread.timers
                  /\ victory' = IF won THEN TRUE
                                ELSE IF defeat THEN FALSE ELSE victory
                  /\ game_over' = (defeat \/ won)
                  /\ houses_saved' = st.houses_saved
                  /\ forest_saved' = st.forest_saved
                  /\ score' = st.score

\* A variant that also runs while the game is paused.
update_when_paused(d) ==
    /\ game_state \in {GAME_STATE, PAUSED_STATE}
    /\ ~game_over
    /\ update_playing(d)

\* The branch "elif self.game_state == GAME_STATE: if not self.game_over".
update(d) ==
    /\ game_state = GAME_STATE
    /\ ~game_over
    /\ update_playing(d)

UpdatePlaying(d) == update(d) /\ UNCHANGED auxvars

\* update while paused, in the menu or after the game is over: no
\* simulation state is written.
UpdateIdle(d) ==
    /\ game_state # GAME_STATE \/ game_over
    /\ UNCHANGED vars

(***************************************************************************)
(* Input: clicks, pause, restart.                                          *)
(***************************************************************************)
\* The grid coordinates handle_3d_click may compute from a mouse position:
\* any cell, or a point off the grid.
ClickXs == -1..GRID_WIDTH
ClickYs == -1..GRID_HEIGHT

\* A variant that lacks the test "and not self.game_over".
ClickWhenOver(x, y) ==
    /\ game_state = GAME_STATE
    /\ InGrid(x, y)
    /\ UNCHANGED <<burnt_timers, game_state, game_over, victory,
                   fire_spread_timer, fire_spread_delay, difficulty,
                   total_burnable, houses_saved, forest_saved, score, terrain,
                   spread_ran, auxvars>>
    /\ \E r \in start_controlled_burn(grid, controlled_burns_used, x, y) :
          /\ grid' = r.grid
          /\ controlled_burns_used' = r.used

\* MOUSEBUTTONUP in the game, not over: handle_3d_click calls
\* start_controlled_burn when the point is on the grid.
Click(x, y) ==
    /\ game_state = GAME_STATE
    /\ ~game_over
    /\ InGrid(x, y)
    /\ UNCHANGED <<burnt_timers, game_state, game_over, victory,
                   fire_spread_timer, fire_spread_delay, difficulty,
                   total_burnable, houses_saved, forest_saved, score, terrain,
                   spread_ran, auxvars>>
    /\ \E r \in start_controlled_burn(grid, controlled_burns_used, x, y) :
          /\ grid' = r.grid
          /\ controlled_burns_used' = r.used

\* A click off the grid, while paused, in the menu background or after the
\* game is over reaches no start_controlled_burn.
ClickIgnored(x, y) ==
    /\ game_state # GAME_STATE \/ game_over \/ ~InGrid(x, y)
    /\ UNCHANGED vars

\* ESC in the game.
Pause ==
    /\ game_state = GAME_STATE
    /\ game_state' = PAUSED_STATE
    /\ UNCHANGED <<grid, burnt_timers, game_over, victory, fire_spread_timer,
                   fire_spread_delay, difficulty, total_burnable,
                   controlled_burns_used, houses_saved, forest_saved, score,
                   terrain, spread_ran,
                   auxvars>>

\* ESC or the RESUME button while paused.
Resume ==
    /\ game_state = PAUSED_STATE
    /\ game_state' = GAME_STATE
    /\ UNCHANGED <<grid, burnt_timers, game_over, victory, fire_spread_timer,
                   fire_spread_delay, difficulty, total_burnable,
                   controlled_burns_used, houses_saved, forest_saved, score,
                   terrain, spread_ran,
                   auxvars>>

\* restart_game: a new terrain is generated and setup_game runs on it; the
\* statistics are not written.
restart_game ==
    /\ burnt_timers' = ZeroTimers
    /\ game_over' = FALSE
    /\ victory' = FALSE
    /\ fire_spread_timer' = 0
    /\ controlled_burns_used' = 0
    /\ \E e \in FreshEpisodes :
          /\ terrain' = e.terrain
          /\ total_burnable' = TotalBurnable(e.terrain)
          /\ grid' = e.grid
    /\ fire_spread_delay' = SpreadDelayOf(difficulty)
    /\ game_state' = GAME_STATE
    /\ spread_ran' = FALSE
    /\ UNCHANGED <<difficulty, houses_saved, forest_saved, score>>

\* A variant that generates no terrain and runs setup_game on the grid of
\* the episode that ended.
RestartSameGrid ==
    /\ \/ game_state = GAME_STATE /\ game_over
       \/ game_state = PAUSED_STATE
    /\ burnt_timers' = ZeroTimers
    /\ game_over' = FALSE
    /\ victory' = FALSE
    /\ fire_spread_timer' = 0
    /\ controlled_burns_used' = 0
    /\ grid' \in setup_game(grid)
    /\ fire_spread_delay' = SpreadDelayOf(difficulty)
    /\ game_state' = GAME_STATE
    /\ spread_ran' = FALSE
    /\ UNCHANGED <<terrain, total_burnable, difficulty, houses_saved,
                   forest_saved, score, auxvars>>

\* restart_game: by R on the game-over screen or by the RESTART button of the
\* pause menu.
Restart ==
    /\ \/ game_state = GAME_STATE /\ game_over
       \/ game_state = PAUSED_STATE
    /\ restart_game
    /\ UNCHANGED auxvars

\* reset_for_menu: the state of the menu over a new terrain.
reset_for_menu ==
    /\ terrain' \in Terrains
    /\ grid' = terrain'
    /\ burnt_timers' = ZeroTimers
    /\ game_over' = FALSE
    /\ victory' = FALSE
    /\ fire_spread_timer' = 0
    /\ controlled_burns_used' = 0
    /\ houses_saved' = 0
    /\ forest_saved' = <<0, 1>>
    /\ total_burnable' = 0
    /\ difficulty' = "Normal"
    /\ game_state' = MENU_STATE
    /\ spread_ran' = FALSE
    /\ UNCHANGED <<fire_spread_delay, score>>

\* reset_for_menu: the MAIN MENU button of the pause menu.
ResetForMenu ==
    /\ game_state = PAUSED_STATE
    /\ reset_for_menu
    /\ UNCHANGED auxvars

Next ==
    \/ \E diff \in Difficulties : SetDifficulty(diff)
    \/ StartGame
    \/ \E d \in Deltas : UpdatePlaying(d)
    \/ \E d \in Deltas : UpdateIdle(d)
    \/ \E x \in ClickXs, y \in ClickYs : Click(x, y)
    \/ \E x \in ClickXs, y \in ClickYs : ClickIgnored(x, y)
    \/ Pause
    \/ Resume
    \/ Restart
    \/ ResetForMenu

Spec == Init /\ [][Next]_vars

(***************************************************************************)
(* Properties.                                                             *)
(***************************************************************************)
\* A step of update in a running episode, and a click that reaches
\* start_controlled_burn.  (A step that changes nothing satisfies every
\* [][A]_vars; the first conjunct only spares evaluating the action on it.
\* The action properties below state "step => effect" as "effect \/ ~step",
\* which names the step only where the effect fails.)
UpdateStep == vars' # vars /\ \E d \in Deltas : UpdatePlaying(d)
ClickStep == vars' # vars /\ \E x \in ClickXs, y \in ClickYs : Click(x, y)

Flammable == {FOREST_DENSE, FOREST_LIGHT, GRASSLAND, FIELD, HOUSE}

\* The transitions of a cell the claim allows.
AllowedChange(a, b) ==
    \/ a \in Flammable /\ b = FIRE
    \/ a = FIRE /\ b = BURNT
    \/ a \in Flammable \ {HOUSE} /\ b = CONTROLLED_BURN
    \/ a = CONTROLLED_BURN /\ b = BURNT

\* C1: within an episode every change of a cell made by an update (age_fire,
\* spread_fire, update_controlled_burns) or by start_controlled_burn is
\* flammable -> fire, fire -> burnt, flammable non-house -> controlled-burn
\* or controlled-burn -> burnt; burnt and water cells never change.
C1_TransitionsFollowGraph ==
    [][\/ \A c \in Cells :
              grid'[c] # grid[c] => AllowedChange(grid[c], grid'[c])
       \/ ~(UpdateStep \/ ClickStep)]_vars

\* A running episode in which a house burns, a cell burns under control
\* and a cell is already ash.
C1_Witness ==
    /\ game_state = GAME_STATE
    /\ \E c \in Cells : grid[c] = FIRE /\ terrain[c] = HOUSE
    /\ \E c \in Cells : grid[c] = CONTROLLED_BURN
    /\ \E c \in Cells : grid[c] = BURNT

\* C2: FLAMMABILITY is 0 for water and for burnt, and neither setup_game
\* (source and splash, at the start of a game or in restart_game) nor an
\* update sets a cell that was water or burnt to fire.
C2_WaterAndBurntNeverIgnite ==
    /\ FLAMMABILITY[WATER] = 0
    /\ FLAMMABILITY[BURNT] = 0
    /\ [][grid' # grid =>
             /\ \/ \A c \in Cells :
                      grid[c] \in {WATER, BURNT} => grid'[c] # FIRE
                \/ ~(StartGame \/ UpdateStep)
             /\ \/ \A c \in Cells :
                      terrain'[c] \in {WATER, BURNT} => grid'[c] # FIRE
                \/ ~Restart]_vars

\* A fire burns beside a water cell and beside a burnt cell.
C2_Witness ==
    /\ game_state = GAME_STATE
    /\ \E c \in Cells :
          /\ grid[c] = FIRE
          /\ burnt_timers[c] > 0
          /\ \E w \in Neighbors(c) : grid[w] = WATER
          /\ \E b \in Neighbors(c) : grid[b] = BURNT

\* C3: on every grid and for every outcome of the draws,
\* start_controlled_burn(x, y) leaves every house cell and every water cell
\* as it was, be it the target or a cell the burn reaches.
C3_BurnSparesHouseAndWater ==
    \A x \in ClickXs, y \in ClickYs :
        \A r \in start_controlled_burn(grid, controlled_burns_used, x, y) :
            \A c \in Cells :
                grid[c] \in {HOUSE, WATER} => r.grid[c] = grid[c]

\* A controlled burn lies beside a house and beside water, both intact.
C3_Witness ==
    /\ controlled_burns_used > 0
    /\ \E c \in Cells :
          /\ grid[c] = CONTROLLED_BURN
          /\ \E h \in Neighbors(c) : grid[h] = HOUSE
          /\ \E w \in Neighbors(c) : grid[w] = WATER

\* C4: start_controlled_burn(x, y) off the grid, or on a fire, burnt,
\* controlled-burn, water or house cell, has one outcome: the grid and
\* controlled_burns_used as they were (the ash-age counters are not among
\* what the operation writes).
C4_IneligibleBurnIsNoOp ==
    \A x \in ClickXs, y \in ClickYs :
        (~InGrid(x, y) \/ grid[<<x, y>>] \in NoBurnOn) =>
            start_controlled_burn(grid, controlled_burns_used, x, y)
                = {[grid |-> grid, used |-> controlled_burns_used]}

\* A running episode that offers every kind of refused target, after a
\* burn was started.
C4_Witness ==
    /\ game_state = GAME_STATE
    /\ ~game_over
    /\ controlled_burns_used > 0
    /\ \A k \in NoBurnOn : \E c \in Cells : grid[c] = k

\* C5: every cell an update ignites is an 8-neighbor of a cell that was fire
\* before spread_fire ran (fire before the update and not aged to ash by
\* it): no ignition of a tick ignites further in the same tick.
C5_IgnitionsFromPreTickFires ==
    [][\/ \A c \in Cells :
              (grid'[c] = FIRE /\ grid[c] # FIRE) =>
                  \E n \in Neighbors(c) : grid[n] = FIRE /\ grid'[n] = FIRE
       \/ ~UpdateStep]_vars

\* A cell was just ignited by an older fire, and a flammable cell out of
\* the older fire's reach lies beside the new one.
C5_Witness ==
    /\ game_state = GAME_STATE
    /\ fire_spread_timer = 0
    /\ \E c \in Cells, n \in Cells :
          /\ grid[c] = FIRE /\ burnt_timers[c] = 0
          /\ n \in Neighbors(c)
          /\ grid[n] = FIRE /\ burnt_timers[n] > 0
          /\ \E m \in Neighbors(c) \ (Neighbors(n) \cup {n}) :
                grid[m] \in Flammable

\* Every in-grid neighbor of every fire cell is fire, burnt, controlled-burn
\* or water.
Contained(g) ==
    \A c \in Cells :
        g[c] = FIRE =>
            \A n \in Neighbors(c) : g[n] \in {FIRE, BURNT, CONTROLLED_BURN, WATER}

\* C8: an update of a running episode declares victory iff the grid it
\* leaves has no fire cell or only fire cells whose neighbors are all fire,
\* burnt, controlled-burn or water.
C8_VictoryIffNoFireOrContained ==
    [][UpdateStep => (victory' <=> (~HasFire(grid') \/ Contained(grid')))]_vars

\* C9: an update of a running episode that leaves no fire cell sets victory
\* and game_over in that same update; an episode whose setup_game ignited
\* nothing is won on its first update.
C9_NoFireIsVictoryAtOnce ==
    [][\/ HasFire(grid')
       \/ victory' /\ game_over'
       \/ ~UpdateStep]_vars

\* setup_game ignited no cell of a burnable terrain and the first update
\* won the episode.
C9_Witness ==
    /\ game_state = GAME_STATE
    /\ game_over /\ victory
    /\ total_burnable > 0
    /\ grid = terrain
    /\ controlled_burns_used = 0

\* C10: an update of a running episode declares defeat (game_over with
\* victory false) iff the cells not water, fire, burnt or controlled-burn
\* number less than 15% of total_burnable.
C10_DefeatIffBelowThreshold ==
    [][UpdateStep =>
          ((game_over' /\ ~victory')
              <=> BurnableLeft(grid') * 100 < total_burnable * 15)]_vars

(***************************************************************************)
(* Updates at a fixed frame time: every update of a run receives the same  *)
(* dt, and age_updates counts, per cell, the playing updates the cell went *)
(* through as fire.                                                        *)
(***************************************************************************)
\* dt * 60 = 1 is the nominal 60 updates per second.
FixedDeltas == {1, 2, 50, 420}

\* Runs at the nominal dt take 420 updates per fire; they are explored on
\* the terrains with at most MaxSlowBurnable burnable cells.
MaxSlowBurnable == 2

InitAging ==
    /\ InitSim
    /\ fixed_d \in FixedDeltas
    /\ fixed_d \in {1, 2} => BurnableLeft(terrain) <= MaxSlowBurnable
    /\ age_updates = ZeroTimers
    /\ clock = ZeroClock
    /\ scan = <<>>
    /\ op = <<>>

\* One playing update of dt * 60 = 1 on c = <<accumulator, spread ticks>>.
UnitUpdate(c, delay) ==
    IF c[1] + 1 >= delay THEN <<0, c[2] + 1>> ELSE <<c[1] + 1, c[2]>>

\* n playing updates of dt * 60 = 1 each: the first half of them, then the
\* rest from where the first half ends.
RECURSIVE UnitUpdates(_, _, _)
UnitUpdates(c, n, delay) ==
    CASE n = 0 -> c
      [] n = 1 -> UnitUpdate(c, delay)
      [] OTHER -> CHOOSE r \in {UnitUpdates(h, n - (n \div 2), delay) :
                                   h \in {UnitUpdates(c, n \div 2, delay)}} : TRUE

UpdateAged ==
    /\ update(fixed_d)
    /\ age_updates' =
          [c \in Cells |->
              IF grid[c] = FIRE THEN age_updates[c] + 1 ELSE age_updates[c]]
    /\ clock' =
          LET unit == UnitUpdates(<<clock.unit_timer, clock.unit_spreads>>,
                                  fixed_d, fire_spread_delay)
          IN  [updates      |-> clock.updates + 1,
               since        |-> IF spread_ran' THEN 0 ELSE clock.since + 1,
               spreads      |-> clock.spreads + (IF spread_ran' THEN 1 ELSE 0),
               unit_timer   |-> unit[1],
               unit_spreads |-> unit[2]]
    /\ UNCHANGED <<fixed_d, scan, op>>

NextAging ==
    \/ \E diff \in Difficulties : SetDifficulty(diff)
    \/ StartGame
    \/ UpdateAged

SpecAging == InitAging /\ [][NextAging]_vars

\* The whole in-grid 8-neighborhood of c is water or burnt.
Ringed(g, c) == \A n \in Neighbors(c) : g[n] \in {WATER, BURNT}

\* C7: a fire cell whose whole in-grid neighborhood is water or burnt
\* ignites no cell, and at a fixed dt it turns burnt in the first update
\* that brings its updates since ignition to MAX_ASH_TIMER / (dt * 60):
\* in update 420 at dt = 1/60, not earlier and not later.
C7_RingedFireBurnsOutOnTime ==
    /\ [](\A c \in Cells :
            Ringed(grid, c) =>
                /\ grid[c] = FIRE => age_updates[c] * fixed_d < MAX_ASH_TIMER
                /\ (grid[c] = BURNT /\ age_updates[c] > 0) =>
                      /\ age_updates[c] * fixed_d >= MAX_ASH_TIMER
                      /\ (age_updates[c] - 1) * fixed_d < MAX_ASH_TIMER)
    /\ [][\A c \in Cells :
             (grid[c] = FIRE /\ Ringed(grid, c)) =>
                 \A n \in Neighbors(c) : grid'[n] # FIRE]_vars

\* A ringed cell has turned to ash in its 420th update at dt = 1/60.
C7_Witness ==
    /\ fixed_d = 1
    /\ \E c \in Cells :
          /\ Ringed(grid, c)
          /\ \A n \in Neighbors(c) : terrain[n] = WATER
          /\ grid[c] = BURNT
          /\ age_updates[c] = 420

(***************************************************************************)
(* The ignition evaluation of spread_fire as a function of the scan order  *)
(* and of the values random.random() returns.  The code scans the cells    *)
(* in ScanOrder and the neighbors in the order of Offsets, and hands the   *)
(* k-th value of the stream to the k-th test it makes; the other orders    *)
(* are the same loops run over permuted ranges.                            *)
(***************************************************************************)
\* The values of the stream an evaluation may consume.
MaxDraws == 4

\* Values of random.random() in thousandths: below every threshold
\* FLAMMABILITY * 0.39, between the thresholds, above all of them.
DrawValues == {100, 200, 500}

Streams == [1..MaxDraws -> DrawValues]

NthDraw(st, k) == st[((k - 1) % MaxDraws) + 1]

Reverse(s) == [i \in 1..Len(s) |-> s[Len(s) + 1 - i]]

ColumnOrder ==
    [i \in 1..(GRID_WIDTH * GRID_HEIGHT) |->
        <<(i - 1) \div GRID_HEIGHT, (i - 1) % GRID_HEIGHT>>]

CellOrders == {ScanOrder, Reverse(ScanOrder), ColumnOrder}

OffsetOrders == {Offsets, Reverse(Offsets)}

\* get_neighbors with its two loops run in the order offs.
NeighborsBy(offs, c) ==
    LET all == [i \in 1..Len(offs) |-> <<c[1] + offs[i][1], c[2] + offs[i][2]>>]
        inside(n) == InGrid(n[1], n[2])
    IN  SelectSeq(all, inside)

NeighborSet == [c \in Cells |-> Neighbors(c)]

\* The tests "random.random() < ..." one call makes on grid g: one for each
\* fire cell and each neighbor of it outside the list.
RelevantPairs(g) ==
    UNION {{<<c, n>> : n \in {m \in NeighborSet[c] : g[m] \notin NoSpreadTo}} :
              c \in {f \in Cells : g[f] = FIRE}}

\* The place of the test of neighbor n of fire cell c in the code's scan.
PairRank(c, n) ==
    (c[2] * GRID_WIDTH + c[1]) * 9
        + (CHOOSE i \in 1..8 : Offsets[i] = <<n[1] - c[1], n[2] - c[2]>>)

KeyOf(g, c, n) ==
    1 + Cardinality({p \in RelevantPairs(g) :
                        PairRank(p[1], p[2]) < PairRank(c, n)})

\* A variant that writes each ignition at once, so that the scan reads it:
\* r.grid is the grid the loops read, g the grid before the call.
RECURSIVE EvalNeighborsLive(_, _, _, _, _, _, _)
EvalNeighborsLive(g, c, ns, i, st, keyed, r) ==
    IF i > Len(ns) THEN r
    ELSE LET n == ns[i]
             terrain_n == r.grid[n]
             draw == IF keyed THEN NthDraw(st, KeyOf(g, c, n))
                     ELSE NthDraw(st, r.used + 1)
             hit == draw < FLAMMABILITY[terrain_n] * 39
         IN  EvalNeighborsLive(g, c, ns, i + 1, st, keyed,
                IF terrain_n \notin NoSpreadTo
                THEN [grid |-> IF hit THEN SetCell(r.grid, n, FIRE)
                               ELSE r.grid,
                      pending |-> IF hit THEN r.pending \cup {n}
                                  ELSE r.pending,
                      used |-> r.used + 1]
                ELSE r)

RECURSIVE EvalCellsLive(_, _, _, _, _, _, _)
EvalCellsLive(g, cs, offs, k, st, keyed, r) ==
    IF k > Len(cs) THEN r
    ELSE EvalCellsLive(g, cs, offs, k + 1, st, keyed,
            IF r.grid[cs[k]] = FIRE
            THEN EvalNeighborsLive(g, cs[k], NeighborsBy(offs, cs[k]), 1,
                                   st, keyed, r)
            ELSE r)

ignition_scan_live(g, cs, offs, st, keyed) ==
    EvalCellsLive(g, cs, offs, 1, st, keyed,
                  [grid |-> g, pending |-> {}, used |-> 0]).pending

\* The inner loop of spread_fire over the neighbors ns of fire cell c:
\* r.pending is new_fires as a set, r.used the number of values taken from
\* the stream st so far.  With keyed, the test of neighbor n of cell c
\* receives the value the code's own scan hands to that test.
RECURSIVE EvalNeighbors(_, _, _, _, _, _, _)
EvalNeighbors(g, c, ns, i, st, keyed, r) ==
    IF i > Len(ns) THEN r
    ELSE LET n == ns[i]
             terrain_n == g[n]
             draw == IF keyed THEN NthDraw(st, KeyOf(g, c, n))
                     ELSE NthDraw(st, r.used + 1)
         IN  EvalNeighbors(g, c, ns, i + 1, st, keyed,
                IF terrain_n \notin NoSpreadTo
                THEN [pending |-> IF draw < FLAMMABILITY[terrain_n] * 39
                                  THEN r.pending \cup {n}
                                  ELSE r.pending,
                      used |-> r.used + 1]
                ELSE r)

RECURSIVE EvalCells(_, _, _, _, _, _, _)
EvalCells(g, cs, offs, k, st, keyed, r) ==
    IF k > Len(cs) THEN r
    ELSE EvalCells(g, cs, offs, k + 1, st, keyed,
            IF g[cs[k]] = FIRE
            THEN EvalNeighbors(g, cs[k], NeighborsBy(offs, cs[k]), 1,
                               st, keyed, r)
            ELSE r)

\* The cells of new_fires after the scan of grid g.
ignition_scan(g, cs, offs, st, keyed) ==
    EvalCells(g, cs, offs, 1, st, keyed, [pending |-> {}, used |-> 0]).pending

\* One evaluation by the code: its own orders, the stream consumed in order.
Evaluate(st) ==
    /\ scan = <<>>
    /\ game_state = GAME_STATE
    /\ Cardinality(RelevantPairs(grid)) <= MaxDraws
    /\ scan' = [grid |-> grid, stream |-> st,
                pending |-> ignition_scan(grid, ScanOrder, Offsets, st, FALSE)]
    /\ UNCHANGED <<simvars, fixed_d, age_updates, clock, op>>

UpdateScan(d) ==
    /\ update(d)
    /\ scan' = <<>>
    /\ UNCHANGED <<fixed_d, age_updates, clock, op>>

\* The values of dt * 60 of the updates between evaluations: a fire lasts
\* three of them, and each of them is a spread tick.
ScanDeltas == {140}

NextScan ==
    \/ StartGame
    \/ \E d \in ScanDeltas : UpdateScan(d)
    \/ \E st \in Streams : Evaluate(st)

SpecScan == Init /\ [][NextScan]_vars

\* The pending sets the streams produce are the outcomes spread_fire draws
\* from in an update.
ScanMatchesSpread ==
    scan # <<>> =>
        {ignition_scan(scan.grid, ScanOrder, Offsets, st, FALSE) :
            st \in Streams} = ScanFires(scan.grid, 1, {{}})

\* C6 as stated: in every cell and neighbor order, the evaluation that
\* consumes the same stream in order yields the pending set of the code's
\* own scan.
C6_SameStreamAnyOrder ==
    scan # <<>> =>
        \A cs \in CellOrders, offs \in OffsetOrders :
            ignition_scan(scan.grid, cs, offs, scan.stream, FALSE) = scan.pending

\* C6 amended: in every cell and neighbor order, the evaluation in which the
\* test of each (fire cell, neighbor) pair receives the same random value
\* yields the pending set of the code's own scan.
C6_SameDrawPerPairAnyOrder ==
    scan # <<>> =>
        \A cs \in CellOrders, offs \in OffsetOrders :
            ignition_scan(scan.grid, cs, offs, scan.stream, TRUE) = scan.pending

\* An evaluation with several tests, some of which ignite, where another
\* order hands a test a different value of the stream.
C6_Witness ==
    /\ scan # <<>>
    /\ Cardinality(RelevantPairs(scan.grid)) >= 2
    /\ scan.pending # {}
    /\ \E cs \in CellOrders, offs \in OffsetOrders :
          ignition_scan(scan.grid, cs, offs, scan.stream, FALSE) # scan.pending

(***************************************************************************)
(* The end of an episode, the statistics, the pause and the restart.       *)
(***************************************************************************)
\* C11: once game_over is true, no step other than restart_game and
\* reset_for_menu (no update, no click, no pause or resume) changes the
\* grid, the ash-age counters, game_over or victory.
C11_GameOverIsTerminal ==
    [][\/ UNCHANGED <<grid, burnt_timers, game_over, victory>>
       \/ ~game_over
       \/ Restart
       \/ ResetForMenu]_vars

\* A lost episode, paused on the game-over screen, in which a fire still
\* burns beside ash.
C11_Witness ==
    /\ game_over
    /\ ~victory
    /\ game_state = PAUSED_STATE
    /\ \E c \in Cells :
          /\ grid[c] = FIRE
          /\ \E b \in Neighbors(c) : grid[b] = BURNT

\* The statistics as the claim states them, for the grid g of an episode
\* with total_burnable = total: hs house cells, fs = <<num, den>> standing
\* for the percentage 100 * num / den, sc the integer part of
\* hs * 100 + (100 * num / den) * 10.
StatsOf(g, total, hs, fs, sc) ==
    LET rem == Cardinality({c \in Cells :
                               g[c] \notin {WATER, FIRE, BURNT, CONTROLLED_BURN}})
    IN  /\ hs = Cardinality({c \in Cells : g[c] = HOUSE})
        /\ fs[2] > 0
        /\ fs[1] * total = rem * fs[2]
        /\ sc * total <= hs * 100 * total + 1000 * rem
        /\ hs * 100 * total + 1000 * rem < (sc + 1) * total

\* The statistics of C12 in the whole game, at the totals its grid has:
\* after the calculate_stats that ends an update of an episode with
\* total_burnable > 0, houses_saved is the number of house cells,
\* forest_saved is 100 * (cells not water, fire, burnt or controlled-burn)
\* / total_burnable and score is the integer part of
\* houses_saved * 100 + forest_saved * 10.
C12_StatsAfterUpdate ==
    [][\/ total_burnable = 0
       \/ StatsOf(grid', total_burnable, houses_saved', forest_saved', score')
       \/ ~UpdateStep]_vars

\* Statistics with a fractional score: two of three burnable cells are
\* left, 666.67 truncated to 666.
C12_Witness ==
    /\ game_state = GAME_STATE
    /\ total_burnable = 3
    /\ houses_saved = 0
    /\ forest_saved = <<2, 3>>
    /\ score = 666

\* Every cell is water, burnt or house.
AllBurnedButHouses(g) == \A c \in Cells : g[c] \in {WATER, BURNT, HOUSE}

\* C13 as stated: when an update leaves only water, burnt and house cells,
\* forest_saved is within 1 percentage point of 0 and houses_saved is the
\* number of house cells, however many houses stand.
C13_ForestSavedNearZero ==
    [][\/ /\ 100 * forest_saved'[1] <= forest_saved'[2]
          /\ houses_saved' = Cardinality({c \in Cells : grid'[c] = HOUSE})
       \/ ~AllBurnedButHouses(grid')
       \/ total_burnable = 0
       \/ ~UpdateStep]_vars

\* C13 amended: when an update leaves only water, burnt and house cells,
\* forest_saved is 100 * (house cells) / total_burnable, which is 0 when no
\* house stands, and houses_saved is the number of house cells.
C13_ForestSavedCountsHouses ==
    [][\/ /\ forest_saved'[2] > 0
          /\ forest_saved'[1] * total_burnable
                = Cardinality({c \in Cells : grid'[c] = HOUSE}) * forest_saved'[2]
          /\ houses_saved' = Cardinality({c \in Cells : grid'[c] = HOUSE})
       \/ ~AllBurnedButHouses(grid')
       \/ total_burnable = 0
       \/ ~UpdateStep]_vars

\* The fire has burned every flammable cell but a house: forest_saved is
\* 25%.
C13_Witness ==
    /\ game_over
    /\ victory
    /\ AllBurnedButHouses(grid)
    /\ \E c \in Cells : grid[c] = BURNT
    /\ houses_saved = 1
    /\ forest_saved = <<1, 4>>

(***************************************************************************)
(* The spread schedule of an episode run at a fixed frame time.            *)
(***************************************************************************)
\* A playing update of a run at a fixed frame time: the only step that
\* advances the clock.
AgedStep == game_state = GAME_STATE /\ ~game_over /\ clock' # clock

\* C14: a playing update runs spread_fire exactly when the accumulator plus
\* dt * 60 has reached the delay of the difficulty the episode was set up
\* with (Easy 55, Hard 20, otherwise 35) and the accumulator is then 0,
\* otherwise it keeps the sum; at dt * 60 = 1 the spread runs on exactly
\* every 55th, 35th or 20th update; the update changes neither the delay nor
\* the difficulty.
C14_SpreadEveryDelay ==
    [][\/ ~AgedStep
       \/ LET delay == CASE difficulty = "Easy" -> 55
                         [] difficulty = "Hard" -> 20
                         [] OTHER -> 35
              reached == fire_spread_timer + fixed_d >= delay
          IN  /\ spread_ran' <=> reached
              /\ fire_spread_timer' =
                    IF reached THEN 0 ELSE fire_spread_timer + fixed_d
              /\ fixed_d = 1 => (spread_ran' <=> clock.since + 1 = delay)
              /\ fire_spread_delay' = fire_spread_delay
              /\ difficulty' = difficulty]_vars

\* The second spread of an Easy episode at the nominal frame time.
C14_Witness ==
    /\ fixed_d = 1
    /\ difficulty = "Easy"
    /\ spread_ran
    /\ clock.spreads = 2
    /\ clock.since = 0
    /\ fire_spread_timer = 0

(***************************************************************************)
(* Controlled burns in an episode run at a fixed frame time, for its first *)
(* MaxBurnUpdates updates.                                                 *)
(***************************************************************************)
\* dt * 60 = 4 rolls 0.8 per cell and update; dt * 60 = 50 rolls above 1.
BurnDeltas == {4, 50}

MaxBurnUpdates == 5

InitBurning ==
    /\ InitSim
    /\ fixed_d \in BurnDeltas
    /\ age_updates = ZeroTimers
    /\ clock = ZeroClock
    /\ scan = <<>>
    /\ op = <<>>

UpdateBurning == clock.updates < MaxBurnUpdates /\ UpdateAged

NextBurning ==
    \/ \E diff \in Difficulties : SetDifficulty(diff)
    \/ StartGame
    \/ \E x \in ClickXs, y \in ClickYs : Click(x, y)
    \/ UpdateBurning

SpecBurning == InitBurning /\ [][NextBurning]_vars

\* C15 as stated: a playing update that does not run spread_fire turns no
\* controlled-burn cell into a burnt one.
C15_BurnsAgeOnlyOnSpread ==
    [][\/ ~AgedStep
       \/ spread_ran'
       \/ \A c \in Cells : grid[c] = CONTROLLED_BURN => grid'[c] # BURNT]_vars

\* C15 amended: the roll runs in every playing update, whether or not the
\* update runs spread_fire: a controlled-burn cell stays as it is or becomes
\* burnt, and it becomes burnt when 0.2 * dt * 60 is at least 1.
C15_BurnsAgeOnEveryUpdate ==
    [][\/ ~AgedStep
       \/ \A c \in Cells :
             grid[c] = CONTROLLED_BURN =>
                /\ grid'[c] \in {CONTROLLED_BURN, BURNT}
                /\ 2 * fixed_d >= 10 => grid'[c] = BURNT]_vars

\* Before the first spread of the episode, and long before a fire can have
\* aged out, one controlled-burn cell has become burnt at a roll of 0.8 and
\* another has not.
C15_Witness ==
    /\ fixed_d = 4
    /\ clock.updates > 0
    /\ clock.spreads = 0
    /\ ~spread_ran
    /\ \E c \in Cells : grid[c] = BURNT
    /\ \E c \in Cells : grid[c] = CONTROLLED_BURN

\* C16: in every playing update, spread or not, a fire cell whose counter
\* plus dt * 60 reaches MAX_ASH_TIMER is burnt after the update, and the
\* counter of every other fire cell has grown by dt * 60 and the cell still
\* burns.
C16_AshAgesOnEveryUpdate ==
    [][\/ ~AgedStep
       \/ \A c \in Cells :
             grid[c] = FIRE =>
                IF burnt_timers[c] + fixed_d >= MAX_ASH_TIMER
                THEN grid'[c] = BURNT
                ELSE /\ grid'[c] = FIRE
                     /\ burnt_timers'[c] = burnt_timers[c] + fixed_d]_vars

\* A fire of the nominal frame time has aged out in its 420th update, which
\* ran no spread: the seventh and last one was the 385th update.
C16_Witness ==
    /\ fixed_d = 1
    /\ difficulty = "Easy"
    /\ ~spread_ran
    /\ clock.updates = MAX_ASH_TIMER
    /\ clock.spreads = 7
    /\ clock.since = 35
    /\ \E c \in Cells : grid[c] = BURNT /\ age_updates[c] = MAX_ASH_TIMER

\* C17: at dt * 60 = 1 and at dt * 60 = 2, an episode has run spread_fire
\* as many times as unit updates would have run it in the same accumulated
\* time.
C17_SpreadsIndependentOfFrameTime ==
    fixed_d \in {1, 2} => clock.spreads = clock.unit_spreads

\* C18: the step that pauses the game and every step taken while it is
\* paused, restart_game and reset_for_menu apart, leave the grid, the ash-age
\* counters, the spread accumulator, game_over, victory, the statistics and
\* controlled_burns_used as they are: at the resume they are what they were
\* at the pause.
C18_PausedIsFrozen ==
    [][\/ UNCHANGED <<grid, burnt_timers, fire_spread_timer, game_over,
                      victory, houses_saved, forest_saved, score,
                      controlled_burns_used>>
       \/ game_state = GAME_STATE /\ game_state' # PAUSED_STATE
       \/ game_state = MENU_STATE
       \/ Restart
       \/ ResetForMenu]_vars

\* Paused in mid-episode: a fire that an update would age, next to a cell it
\* could spread to, a controlled burn that an update would turn burnt, and
\* a cell a click could burn.
C18_Witness ==
    /\ game_state = PAUSED_STATE
    /\ ~game_over
    /\ fire_spread_timer > 0
    /\ \E c \in Cells :
          /\ grid[c] = FIRE
          /\ \E n \in Neighbors(c) : grid[n] \notin NoSpreadTo
    /\ \E c \in Cells : grid[c] = CONTROLLED_BURN
    /\ \E c \in Cells : grid[c] \notin NoBurnOn

\* C19: right after restart_game the grid is a newly generated terrain with
\* the fires of its setup_game on cells that terrain has as flammable, so no
\* cell is burnt or controlled-burn and no cell is left from the grid before;
\* every ash-age counter is 0, game_over and victory are false, the spread
\* accumulator and controlled_burns_used are 0.  (restart_game runs from the
\* game-over screen and from the pause menu only.)
C19_RestartReplacesEpisode ==
    [][\/ game_state = GAME_STATE /\ ~game_over
       \/ game_state = MENU_STATE
       \/ /\ terrain' \in Terrains
          /\ \A c \in Cells :
                /\ grid'[c] \notin {BURNT, CONTROLLED_BURN}
                /\ \/ grid'[c] = terrain'[c]
                   \/ grid'[c] = FIRE /\ FLAMMABILITY[terrain'[c]] > 0
          /\ burnt_timers' = ZeroTimers
          /\ ~game_over'
          /\ ~victory'
          /\ fire_spread_timer' = 0
          /\ controlled_burns_used' = 0
       \/ ~Restart]_vars

\* A new episode that no update has touched yet, under the statistics of an
\* episode in which part of the land burned: restart_game leaves them.
C19_Witness ==
    /\ game_state = GAME_STATE
    /\ ~game_over
    /\ ~spread_ran
    /\ fire_spread_timer = 0
    /\ controlled_burns_used = 0
    /\ burnt_timers = ZeroTimers
    /\ \E c \in Cells : grid[c] = FIRE
    /\ \A c \in Cells : grid[c] \notin {BURNT, CONTROLLED_BURN}
    /\ forest_saved[1] > 0
    /\ forest_saved[1] < forest_saved[2]

\* C20: after the setup_game of start_game_from_menu or of restart_game there
\* are at most 2 sources, fire cells on the border that the terrain has as
\* flammable, and every other fire cell is within Chebyshev distance 1 of a
\* source and is, in the terrain, flammable and not water; the rest of the
\* grid is the terrain.
C20_SourcesAndSplash ==
    [][\/ game_state = GAME_STATE /\ ~game_over
       \/ ~(StartGame \/ Restart)
       \/ \E S \in SUBSET {c \in Cells : \/ c[1] \in {0, GRID_WIDTH - 1}
                                         \/ c[2] \in {0, GRID_HEIGHT - 1}} :
             /\ Cardinality(S) <= 2
             /\ \A s \in S :
                   grid'[s] = FIRE /\ FLAMMABILITY[terrain'[s]] > 0
             /\ \A c \in Cells \ S :
                   \/ grid'[c] = terrain'[c] /\ grid'[c] # FIRE
                   \/ /\ grid'[c] = FIRE
                      /\ terrain'[c] # WATER
                      /\ FLAMMABILITY[terrain'[c]] > 0
                      /\ \E s \in S : /\ c[1] - s[1] \in -1..1
                                      /\ c[2] - s[2] \in -1..1]_vars

\* A new episode before its first update: the cell in the middle of the grid
\* burns as a splash cell, with two more cells.
C20_Witness ==
    /\ game_state = GAME_STATE
    /\ ~game_over
    /\ ~spread_ran
    /\ fire_spread_timer = 0
    /\ burnt_timers = ZeroTimers
    /\ grid[<<1, 1>>] = FIRE
    /\ Cardinality({c \in Cells : grid[c] = FIRE}) >= 3
    /\ \A c \in Cells : grid[c] \notin {BURNT, CONTROLLED_BURN}

(***************************************************************************)
(* setup_game followed attempt by attempt: op holds the pass of            *)
(* "for _ in range(2)", the attempts the pass has made, the sources found, *)
(* the grid as the first pass left it and the passes that found no source. *)
(***************************************************************************)
\* "for attempt in range(100)".
SETUP_ATTEMPTS == 100

InitSetup ==
    /\ InitSim
    /\ fixed_d = 0
    /\ age_updates = ZeroTimers
    /\ clock = ZeroClock
    /\ scan = <<>>
    /\ op = [pc |-> "menu", pass |-> 1, attempt |-> 0, sources |-> 0,
             first |-> <<>>, gave_up |-> {}]

\* The end of one pass that leaves grid g: the second pass follows the
\* first, and setup_game returns after the second.
EndPass(g, found) ==
    [pc      |-> IF op.pass = 1 THEN "attempt" ELSE "done",
     pass    |-> IF op.pass = 1 THEN 2 ELSE op.pass,
     attempt |-> 0,
     sources |-> op.sources + (IF found THEN 1 ELSE 0),
     first   |-> IF op.pass = 1 THEN g ELSE op.first,
     gave_up |-> IF found THEN op.gave_up ELSE op.gave_up \cup {op.pass}]

\* start_game_from_menu up to the first pass of setup_game.
SetupBegin ==
    /\ op.pc = "menu"
    /\ game_state = MENU_STATE
    /\ game_state' = GAME_STATE
    /\ total_burnable' = TotalBurnable(grid)
    /\ fire_spread_delay' = SpreadDelayOf(difficulty)
    /\ op' = [op EXCEPT !.pc = "attempt"]
    /\ UNCHANGED <<grid, burnt_timers, game_over, victory, fire_spread_timer,
                   difficulty, controlled_burns_used, houses_saved,
                   forest_saved, score, terrain, spread_ran, fixed_d,
                   age_updates, clock, scan>>

\* One attempt: the border cell b is drawn; a flammable cell that does not
\* burn becomes the source, is splashed and ends the pass.
SetupAttempt(b) ==
    /\ op.pc = "attempt"
    /\ op.attempt < SETUP_ATTEMPTS
    /\ IF SourceOk(grid, b)
       THEN /\ grid' \in Splash(SetCell(grid, b, FIRE), b)
            /\ op' = EndPass(grid', TRUE)
       ELSE /\ grid' = grid
            /\ op' = [op EXCEPT !.attempt = @ + 1]
    /\ UNCHANGED <<burnt_timers, game_state, game_over, victory,
                   fire_spread_timer, fire_spread_delay, difficulty,
                   total_burnable, controlled_burns_used, houses_saved,
                   forest_saved, score, terrain, spread_ran, fixed_d,
                   age_updates, clock, scan>>

\* A variant in which a pass that finds no source raises an error.
SetupNotFoundRaises ==
    /\ op.pc = "attempt"
    /\ op.attempt = SETUP_ATTEMPTS
    /\ op' = [op EXCEPT !.pc = "error"]
    /\ UNCHANGED <<simvars, fixed_d, age_updates, clock, scan>>

\* "if not found_start": the pass prints a warning and ends.
SetupNotFound ==
    /\ op.pc = "attempt"
    /\ op.attempt = SETUP_ATTEMPTS
    /\ op' = EndPass(grid, FALSE)
    /\ UNCHANGED <<simvars, fixed_d, age_updates, clock, scan>>

NextSetup ==
    \/ SetupBegin
    \/ \E b \in BorderCells : SetupAttempt(b)
    \/ SetupNotFound

SpecSetup == InitSetup /\ [][NextSetup]_vars

\* C21: setup_game raises no error, and when its second pass finds no source
\* in 100 attempts after the first pass found one, it returns with the grid
\* as the first pass left it: the episode runs with the first fire alone.
C21_SetupNeverFails ==
    /\ op.pc # "error"
    /\ (op.pc = "done" /\ op.gave_up = {2}) =>
          /\ op.sources = 1
          /\ grid = op.first
          /\ \E c \in Cells : grid[c] = FIRE
          /\ game_state = GAME_STATE
          /\ ~game_over

\* The second pass ended after 100 attempts on border cells of water or
\* fire although a flammable border cell is left.
C21_Witness ==
    /\ op.pc = "done"
    /\ op.gave_up = {2}
    /\ op.sources = 1
    /\ \E b \in BorderCells : SourceOk(grid, b)

(***************************************************************************)
(* The water-ring scenario at the scale of the grid: a fire and the        *)
(* grassland beside it, RingCells cells in all along the left edge, a      *)
(* closed ring of water around them and grassland outside the ring; an     *)
(* episode at normal difficulty with no controlled burn, at a fixed frame  *)
(* time.                                                                   *)
(***************************************************************************)
RingCells == 2

RingInside == {<<0, y>> : y \in 0..(RingCells - 1)}

\* Every cell outside RingInside at Chebyshev distance 1 from a cell of it.
RingWater ==
    {c \in Cells \ RingInside :
        \E i \in RingInside : c[1] - i[1] \in -1..1 /\ c[2] - i[2] \in -1..1}

RingGrid ==
    [c \in Cells |->
        IF c = <<0, 0>> THEN FIRE
        ELSE IF c \in RingWater THEN WATER
        ELSE GRASSLAND]

\* dt * 60 = 1 is the nominal update; with dt * 60 = 35 every update of a
\* Normal episode is a spread tick.
RingDeltas == {1, 35}

InitRing ==
    /\ grid = RingGrid
    /\ terrain = RingGrid
    /\ burnt_timers = ZeroTimers
    /\ game_state = GAME_STATE
    /\ game_over = FALSE
    /\ victory = FALSE
    /\ fire_spread_timer = 0
    /\ fire_spread_delay = DIFFICULTY_NORMAL_SPREAD
    /\ difficulty = "Normal"
    /\ total_burnable = TotalBurnable(RingGrid)
    /\ controlled_burns_used = 0
    /\ houses_saved = 0
    /\ forest_saved = <<0, 1>>
    /\ score = NO_SCORE
    /\ spread_ran = FALSE
    /\ fixed_d \in RingDeltas
    /\ age_updates = ZeroTimers
    /\ clock = ZeroClock
    /\ scan = <<>>
    /\ op = <<>>

NextRing == UpdateAged

SpecRing == InitRing /\ [][NextRing]_vars

\* C22: in the water-ring scenario no cell outside the ring is ever fire:
\* the ring stays water and the land outside it stays grassland.
C22_FireStaysInsideRing ==
    \A c \in Cells \ RingInside : grid[c] # FIRE /\ grid[c] = RingGrid[c]

\* The fire has spread to the grassland inside the ring, next to the water,
\* and there is grassland outside the ring.
C22_Witness ==
    /\ \E c \in RingInside \ {<<0, 0>>} : grid[c] = FIRE
    /\ grid[<<0, 0>>] = BURNT
    /\ \E c \in Cells \ (RingInside \cup RingWater) : grid[c] = GRASSLAND

\* C23 as stated: in the water-ring scenario, after 200 updates no cell is
\* fire and victory is true.
C23_VictoryWithin200Ticks ==
    clock.updates >= 200 => (~HasFire(grid) /\ victory)

\* The accumulated time by which the fire inside the ring is out at the
\* latest: a fire burns MAX_ASH_TIMER and can light a neighbor for the last
\* time at the last spread tick before that, 385 after its own ignition.
RingBurnTime ==
    (RingCells - 1) * (MAX_ASH_TIMER - DIFFICULTY_NORMAL_SPREAD) + MAX_ASH_TIMER

\* C23 amended: in the water-ring scenario the episode ends only by victory
\* with no cell on fire, and it has ended once the accumulated time dt * 60
\* is 420 plus 385 for each further cell inside the ring.
C23_VictoryWithinBurnTime ==
    /\ game_over => (victory /\ ~HasFire(grid))
    /\ clock.updates * fixed_d >= RingBurnTime => game_over

\* The slowest run at the nominal frame time: the last cell inside the ring
\* caught fire at the last tick of the one before it.
C23_Witness ==
    /\ fixed_d = 1
    /\ clock.updates = RingBurnTime
    /\ game_over
    /\ victory
    /\ \A c \in RingInside : grid[c] = BURNT

(***************************************************************************)
(* generate_terrain followed step by step: the noise pass, then add_rivers,*)
(* add_lakes, add_houses and add_clearings.  op holds the phase, the noise *)
(* seed, the features the phase still has to make, the failed site         *)
(* attempts of the feature, the cell a river has reached or a feature is   *)
(* built around, and houses_total.  The code's grid is 80 x 45; its        *)
(* distances (margins, radii, offsets, lengths) are cut to what the        *)
(* model's grid holds.                                                     *)
(***************************************************************************)
\* "for _ in range(50)" of add_lakes and add_houses.
SITE_ATTEMPTS == 50

\* Rivers, lakes, house clusters and clearings made by one generation, at
\* most.
MaxFeatures == 1

\* Houses drawn for one cluster, at most.
MaxHouses == 2

\* random.randint(0, 1000), the seed of the noise, at most.
MaxGenSeed == 1

\* A distance of the code, cut to a third of the model's grid.
Scaled(n) == Min(n, Min(GRID_WIDTH, GRID_HEIGHT) \div 3)

\* random.random() * 0.05 of a cell, as one of two amounts.
Jitters == {0, 1}

\* The value of a cell in hundredths: the three pnoise2 samples at the
\* jittered coordinates, combined and compressed by tanh.  The sampler is a
\* function of the seed, the cell and the jitter, with values in -70..70.
NoiseValue(seed, x, y, j) ==
    ((seed * 31 + x * 45 + y * 65 + j * 8) % 141) - 70

\* A variant that tests the grassland threshold before the field one.
ClassifySwapped(value) ==
    IF value < -40 THEN WATER
    ELSE IF value < 5 THEN GRASSLAND
    ELSE IF value < -15 THEN FIELD
    ELSE IF value < 25 THEN FOREST_LIGHT
    ELSE FOREST_DENSE

\* The kind of a cell from its value.
Classify(value) ==
    IF value < -40 THEN WATER
    ELSE IF value < -15 THEN FIELD
    ELSE IF value < 5 THEN GRASSLAND
    ELSE IF value < 25 THEN FOREST_LIGHT
    ELSE FOREST_DENSE

\* The grid after the noise pass.
NoiseGrid(seed, J) ==
    [c \in Cells |-> Classify(NoiseValue(seed, c[1], c[2], J[c]))]

\* The grid every cell of which is dense forest, as before a generation.
DenseGrid == [c \in Cells |-> FOREST_DENSE]

RiverCounts == 1..Min(3, MaxFeatures)
LakeCounts == 1..Min(3, MaxFeatures)
ClusterCounts == Min(3, MaxFeatures)..Min(7, MaxFeatures)
ClearingCounts == Min(5, MaxFeatures)..Min(10, MaxFeatures)

\* random.randint(30, 80), cut to the width of the model's grid.
RiverLengths == Min(30, GRID_WIDTH)..Min(80, GRID_WIDTH)

\* random.randint(4, 8).
LakeRadii == Scaled(4)..Scaled(8)

\* random.randint(-3, 3).
HouseOffsets == (0 - Scaled(3))..Scaled(3)

\* random.randint(2, 6).
HouseCounts == Min(2, MaxHouses)..Min(6, MaxHouses)

\* random.randint(2, 5).
ClearingSizes == 2..Min(5, Max(2, GRID_WIDTH - 1))

\* The centres randint(m, GRID_WIDTH - m), randint(m, GRID_HEIGHT - m).
Sites(margin) ==
    (margin..(GRID_WIDTH - margin)) \X (margin..(GRID_HEIGHT - margin))

\* The centres of lakes and house clusters, and those of clearings.
FeatureSites == Sites(Scaled(5))
ClearingSites == Sites(Scaled(3))

\* The cells (x + dx, y + dy) for dx, dy in range(lo, hi), inside the grid.
Square(c, lo, hi) ==
    {k \in Cells : /\ c[1] + lo <= k[1] /\ k[1] < c[1] + hi
                   /\ c[2] + lo <= k[2] /\ k[2] < c[2] + hi}

\* The grid with the cells of S of kind k.
WriteCells(g, S, k) == [x \in Cells |-> IF x \in S THEN k ELSE g[x]]

\* The position clamped into the grid.
Clamp(x, y) ==
    <<Max(0, Min(GRID_WIDTH - 1, x)), Max(0, Min(GRID_HEIGHT - 1, y))>>

\* One step of a river at c: c and the neighbours S its draws picked turn
\* to water.
RiverWrite(g, c, S) ==
    IF InGrid(c[1], c[2])
    THEN WriteCells(g, {c} \cup (S \cap (Square(c, -1, 2) \ {c})), WATER)
    ELSE g

\* Where the river goes from c with the direction d.
RiverMove(c, start_x, d) ==
    IF start_x = 0 THEN Clamp(c[1] + 1, c[2] + d)
    ELSE Clamp(c[1] + d, c[2] + 1)

\* The squared distance of k from c.
Dist2(c, k) == (k[1] - c[1]) * (k[1] - c[1]) + (k[2] - c[2]) * (k[2] - c[2])

\* The cells of the lake of radius r at c whatever random.uniform(-1, 1)
\* gives, and those it takes for some values only.  uniform(-1, 1) is
\* -1 + 2 * random(), from -1 to 1 - 2^-52; the double r + (1 - 2^-52) is
\* below r + 1 for r = 1 and is r + 1 itself from r = 2 on, where the sum is
\* rounded, so that a cell at the distance r + 1 exactly can be taken then.
LakeSure(c, r) ==
    {k \in Square(c, 0 - r, r + 1) : Dist2(c, k) <= (r - 1) * (r - 1)}
LakeMaybe(c, r) ==
    {k \in Square(c, 0 - r, r + 1) :
        /\ Dist2(c, k) > (r - 1) * (r - 1)
        /\ \/ Dist2(c, k) < (r + 1) * (r + 1)
           \/ r >= 2 /\ Dist2(c, k) = (r + 1) * (r + 1)}

\* The lake of radius r at c: its cells but the houses turn to water.
LakeWrite(g, c, r, S) ==
    WriteCells(g, {k \in LakeSure(c, r) \cup (S \cap LakeMaybe(c, r)) :
                      g[k] # HOUSE}, WATER)

\* A variant that builds on water and on houses.
PlaceHouseAnywhere(gt, c, off) ==
    LET h == <<c[1] + off[1], c[2] + off[2]>>
    IN  IF InGrid(h[1], h[2])
        THEN <<SetCell(gt[1], h, HOUSE), gt[2] + 1>>
        ELSE gt

\* One house of the cluster at c, drawn at the offset off: gt is the grid
\* with houses_total.
PlaceHouse(gt, c, off) ==
    LET h == <<c[1] + off[1], c[2] + off[2]>>
    IN  IF InGrid(h[1], h[2]) /\ gt[1][h] \notin {WATER, HOUSE}
        THEN <<SetCell(gt[1], h, HOUSE), gt[2] + 1>>
        ELSE gt

\* The houses of a cluster, drawn at the offsets offs in turn.
RECURSIVE PlaceHouses(_, _, _, _)
PlaceHouses(gt, c, offs, i) ==
    IF i > Len(offs) THEN gt
    ELSE PlaceHouses(PlaceHouse(gt, c, offs[i]), c, offs, i + 1)

\* The clearing of the given size at c: the cells S its draws picked turn
\* to grassland.  range(-size // 2, size // 2 + 1) rounds -size / 2 down.
ClearingSquare(c, size) ==
    Square(c, 0 - ((size + 1) \div 2), (size \div 2) + 1)
ClearingWrite(g, c, size, S) ==
    WriteCells(g, S \cap ClearingSquare(c, size), GRASSLAND)

\* What generation leaves alone.
genfixed ==
    <<burnt_timers, game_state, game_over, victory, fire_spread_timer,
      fire_spread_delay, difficulty, total_burnable, controlled_burns_used,
      houses_saved, forest_saved, score, terrain, spread_ran, fixed_d,
      age_updates, clock, scan>>

\* generate_terrain is about to run.
GenStart ==
    [pc |-> "noise", seed |-> 0, left |-> 0, attempt |-> 0, at |-> <<0, 0>>,
     dir |-> 0, len |-> 0, start_x |-> 0, houses_total |-> 0]

\* __init__ up to its call of generate_terrain.
InitGen ==
    /\ grid = DenseGrid
    /\ terrain = DenseGrid
    /\ burnt_timers = ZeroTimers
    /\ game_state = MENU_STATE
    /\ game_over = FALSE
    /\ victory = FALSE
    /\ fire_spread_timer = 0
    /\ fire_spread_delay = DIFFICULTY_NORMAL_SPREAD
    /\ difficulty = "Normal"
    /\ total_burnable = 0
    /\ controlled_burns_used = 0
    /\ houses_saved = 0
    /\ forest_saved = <<0, 1>>
    /\ score = NO_SCORE
    /\ spread_ran = FALSE
    /\ fixed_d = 0
    /\ age_updates = ZeroTimers
    /\ clock = ZeroClock
    /\ scan = <<>>
    /\ op = GenStart

\* The phase after each phase, and the features a phase makes.
PhaseAfter(phase) ==
    CASE phase = "rivers" -> "lakes"
      [] phase = "lakes" -> "houses"
      [] phase = "houses" -> "clearings"
      [] phase = "clearings" -> "done"

FeatureCounts(phase) ==
    CASE phase = "rivers" -> RiverCounts
      [] phase = "lakes" -> LakeCounts
      [] phase = "houses" -> ClusterCounts
      [] phase = "clearings" -> ClearingCounts
      [] phase = "done" -> {0}

\* op after a feature of the phase is made or given up: the next feature
\* of the phase or, after the last, the next phase with the number of its
\* features drawn.  add_houses starts with houses_total = 0.
FeatureDone(o, phase) ==
    LET rest == [o EXCEPT !.attempt = 0, !.at = <<0, 0>>, !.dir = 0,
                          !.len = 0, !.start_x = 0]
    IN  IF o.left > 1
        THEN {[rest EXCEPT !.pc = phase, !.left = o.left - 1]}
        ELSE {[rest EXCEPT !.pc = PhaseAfter(phase), !.left = n,
                           !.houses_total =
                               IF phase = "lakes" THEN 0 ELSE o.houses_total] :
                 n \in FeatureCounts(PhaseAfter(phase))}

\* The noise pass: the seed and the jitter are drawn and every cell is
\* classified; add_rivers draws the number of its rivers.
GenNoise ==
    /\ op.pc = "noise"
    /\ \E seed \in 0..MaxGenSeed, J \in [Cells -> Jitters], n \in RiverCounts :
          /\ grid' = NoiseGrid(seed, J)
          /\ op' = [op EXCEPT !.pc = "rivers", !.seed = seed, !.left = n]
    /\ UNCHANGED genfixed

\* A river starts on the left edge or on the top edge.
RiverStart ==
    /\ op.pc = "rivers"
    /\ \E left_edge \in BOOLEAN, len \in RiverLengths,
          sx \in (GRID_WIDTH \div 4)..((3 * GRID_WIDTH) \div 4),
          sy \in (GRID_HEIGHT \div 4)..((3 * GRID_HEIGHT) \div 4) :
          LET start == IF left_edge THEN <<0, sy>> ELSE <<sx, 0>>
          IN  op' = [op EXCEPT !.pc = "river", !.at = start, !.dir = 1,
                               !.len = len, !.start_x = start[1]]
    /\ UNCHANGED <<grid, genfixed>>

\* One step of the river: it floods its cell and the neighbours drawn,
\* keeps or redraws its direction and moves on.
RiverStep ==
    /\ op.pc = "river"
    /\ \E S \in SUBSET (Square(op.at, -1, 2) \ {op.at}), d \in {-1, 0, 1} :
          /\ grid' = RiverWrite(grid, op.at, S)
          /\ IF op.len > 1
             THEN op' = [op EXCEPT !.at = RiverMove(op.at, op.start_x, d),
                                   !.dir = d, !.len = op.len - 1]
             ELSE op' \in FeatureDone(op, "rivers")
    /\ UNCHANGED genfixed

\* One attempt of a lake: a centre that is not water ends the attempts.
LakeAttempt ==
    /\ op.pc = "lakes"
    /\ op.attempt < SITE_ATTEMPTS
    /\ \E c \in FeatureSites :
          op' = IF ~InGrid(c[1], c[2]) THEN [op EXCEPT !.pc = "error"]
                ELSE IF grid[c] # WATER
                THEN [op EXCEPT !.pc = "lake", !.at = c, !.attempt = 0]
                ELSE [op EXCEPT !.attempt = op.attempt + 1]
    /\ UNCHANGED <<grid, genfixed>>

\* The lake is carved around its centre.
LakeFill ==
    /\ op.pc = "lake"
    /\ \E r \in LakeRadii :
       \E S \in SUBSET LakeMaybe(op.at, r) :
          grid' = LakeWrite(grid, op.at, r, S)
    /\ op' \in FeatureDone(op, "lakes")
    /\ UNCHANGED genfixed

\* A variant in which a lake without a site raises an error.
LakeSkipRaises ==
    /\ op.pc = "lakes"
    /\ op.attempt = SITE_ATTEMPTS
    /\ op' = [op EXCEPT !.pc = "error"]
    /\ UNCHANGED <<grid, genfixed>>

\* Fifty attempts found no centre: the lake is left out.
LakeSkip ==
    /\ op.pc = "lakes"
    /\ op.attempt = SITE_ATTEMPTS
    /\ op' \in FeatureDone(op, "lakes")
    /\ UNCHANGED <<grid, genfixed>>

\* One attempt of a house cluster: a centre on grassland or field ends the
\* attempts.
HouseAttempt ==
    /\ op.pc = "houses"
    /\ op.attempt < SITE_ATTEMPTS
    /\ \E c \in FeatureSites :
          op' = IF ~InGrid(c[1], c[2]) THEN [op EXCEPT !.pc = "error"]
                ELSE IF grid[c] \in {GRASSLAND, FIELD}
                THEN [op EXCEPT !.pc = "cluster", !.at = c, !.attempt = 0]
                ELSE [op EXCEPT !.attempt = op.attempt + 1]
    /\ UNCHANGED <<grid, genfixed>>

\* The houses of the cluster are drawn around its centre.
HouseCluster ==
    /\ op.pc = "cluster"
    /\ \E n \in HouseCounts :
       \E offs \in [1..n -> HouseOffsets \X HouseOffsets] :
          LET gt == PlaceHouses(<<grid, op.houses_total>>, op.at, offs, 1)
          IN  /\ grid' = gt[1]
              /\ op' \in FeatureDone([op EXCEPT !.houses_total = gt[2]],
                                     "houses")
    /\ UNCHANGED genfixed

\* Fifty attempts found no centre: the cluster is left out.
HouseSkip ==
    /\ op.pc = "houses"
    /\ op.attempt = SITE_ATTEMPTS
    /\ op' \in FeatureDone(op, "houses")
    /\ UNCHANGED <<grid, genfixed>>

\* One clearing: a centre on dense forest is cleared, any other is left.
Clearing ==
    /\ op.pc = "clearings"
    /\ \E c \in ClearingSites :
          IF ~InGrid(c[1], c[2])
          THEN grid' = grid /\ op' = [op EXCEPT !.pc = "error"]
          ELSE /\ IF grid[c] = FOREST_DENSE
                  THEN \E size \in ClearingSizes :
                       \E S \in SUBSET ClearingSquare(c, size) :
                          grid' = ClearingWrite(grid, c, size, S)
                  ELSE grid' = grid
               /\ op' \in FeatureDone(op, "clearings")
    /\ UNCHANGED genfixed

\* reset_for_menu: the grid is dense forest again and generate_terrain
\* runs once more.
GenAgain ==
    /\ op.pc = "done"
    /\ grid' = DenseGrid
    /\ op' = GenStart
    /\ UNCHANGED genfixed

NextGen ==
    \/ GenNoise
    \/ RiverStart
    \/ RiverStep
    \/ LakeAttempt
    \/ LakeFill
    \/ LakeSkip
    \/ HouseAttempt
    \/ HouseCluster
    \/ HouseSkip
    \/ Clearing
    \/ GenAgain

SpecGen == InitGen /\ [][NextGen]_vars

(***************************************************************************)
(* C24.                                                                    *)
(***************************************************************************)
\* A river of len steps from c that floods no neighbour and keeps its
\* direction.
RECURSIVE StraightRiver(_, _, _)
StraightRiver(g, c, len) ==
    IF len = 0 THEN g
    ELSE StraightRiver(RiverWrite(g, c, {}), RiverMove(c, 0, 1), len - 1)

\* The grid one generation leaves from the seed: the one in which no cell
\* is jittered, the one river runs straight from the left edge, the lake
\* and the house cluster take a centre that suits them and every other draw
\* takes its least value, so that the clearing clears no cell.
ReferenceGrid(seed) ==
    LET noised == NoiseGrid(seed, [c \in Cells |-> 0])
        rivered == StraightRiver(noised, <<0, GRID_HEIGHT \div 4>>,
                                 Min(30, GRID_WIDTH))
        dry == {c \in FeatureSites : rivered[c] # WATER}
        laked == IF dry = {} THEN rivered
                 ELSE LakeWrite(rivered, CHOOSE c \in dry : TRUE,
                                Scaled(4), {})
        open == {c \in FeatureSites : laked[c] \in {GRASSLAND, FIELD}}
        low == <<0 - Scaled(3), 0 - Scaled(3)>>
    IN  IF open = {} THEN laked
        ELSE PlaceHouses(<<laked, 0>>, CHOOSE c \in open : TRUE,
                         [i \in 1..Min(2, MaxHouses) |-> low], 1)[1]

\* C24: terrain generation is deterministic: two generations with the same
\* seed and grid dimensions leave the same grid, so every generation from a
\* seed leaves the grid that the reference generation from that seed
\* leaves.
C24_GenerationIsDeterministic ==
    op.pc = "done" => grid = ReferenceGrid(op.seed)

\* The reference generation is one the program can make.
C24_ReferenceReached ==
    op.pc = "done" /\ grid = ReferenceGrid(op.seed)

(***************************************************************************)
(* C29, C30.                                                               *)
(***************************************************************************)
\* The phases of generation up to the end of add_lakes.
WaterPhases == {"noise", "rivers", "river", "lakes", "lake"}

\* C29: rivers and lakes are carved before houses are placed, so the grid
\* holds no house until add_lakes has ended and no cell turns to water
\* afterwards; add_houses places a house only around a centre that is
\* grassland or field, never on a water cell and never on a house placed
\* before (houses_total counts each house cell once); add_lakes turns no
\* house cell to water.
C29_HousesAfterWater ==
    /\ [](op.pc \in WaterPhases => \A c \in Cells : grid[c] # HOUSE)
    /\ [][ /\ \A c \in Cells :
                /\ (grid[c] # HOUSE /\ grid'[c] = HOUSE) =>
                      /\ op.pc = "cluster"
                      /\ grid[op.at] \in {GRASSLAND, FIELD}
                      /\ grid[c] # WATER
                /\ (grid[c] # WATER /\ grid'[c] = WATER) =>
                      op.pc \in WaterPhases
                /\ (grid[c] = HOUSE /\ op.pc \in {"cluster", "lake"}) =>
                      grid'[c] = HOUSE
           /\ op.pc = "cluster" =>
                 op'.houses_total = op.houses_total
                     + Cardinality({c \in Cells : grid[c] # HOUSE
                                                  /\ grid'[c] = HOUSE})
         ]_vars

\* A cluster has drawn its two houses and placed one: the other fell on
\* the first, on water or off the grid, and water lies by the house.
C29_Witness ==
    /\ op.pc = "clearings"
    /\ op.houses_total = 1
    /\ \E h \in Cells :
          /\ grid[h] = HOUSE
          /\ \A c \in Cells \ {h} : grid[c] # HOUSE
          /\ \E c \in Square(h, -1, 2) : grid[c] = WATER

\* The steps generation has left at most, from the phase, the features
\* left and the steps the feature has left.
GenRank(o) ==
    LET stage == CASE o.pc = "noise" -> 6
                   [] o.pc \in {"rivers", "river"} -> 5
                   [] o.pc \in {"lakes", "lake"} -> 4
                   [] o.pc \in {"houses", "cluster"} -> 3
                   [] o.pc = "clearings" -> 2
                   [] o.pc = "done" -> 1
                   [] OTHER -> 0
        inner == CASE o.pc = "rivers" -> GRID_WIDTH + 1
                   [] o.pc = "river" -> o.len
                   [] o.pc \in {"lakes", "houses"} ->
                          SITE_ATTEMPTS - o.attempt + 2
                   [] o.pc \in {"lake", "cluster"} -> 1
                   [] OTHER -> 0
        base == SITE_ATTEMPTS + GRID_WIDTH + 4
    IN  stage * base * base + o.left * base + inner

\* C30: generate_terrain ends without an error: every step brings its end
\* nearer, a lake or a house cluster fails at most 50 times to find its
\* centre and is then left out, the grid as it was, and every position of a
\* river and every centre of a lake, a cluster or a clearing is a cell of
\* the grid.
C30_GenerationTerminates ==
    /\ [](/\ op.pc # "error"
          /\ op.attempt <= SITE_ATTEMPTS
          /\ op.at \in Cells
          /\ FeatureSites \cup ClearingSites \subseteq Cells)
    /\ [][ /\ op.pc = "done" \/ GenRank(op') < GenRank(op)
           /\ op.attempt = SITE_ATTEMPTS =>
                 /\ grid' = grid
                 /\ op'.attempt = 0
                 /\ op'.pc \in {op.pc, PhaseAfter(op.pc)}
         ]_vars

\* The fifty attempts of a house cluster have failed: no centre it can
\* draw is grassland or field.
C30_Witness ==
    /\ op.pc = "houses"
    /\ op.attempt = SITE_ATTEMPTS
    /\ \A c \in FeatureSites : grid[c] \notin {GRASSLAND, FIELD}
    /\ \E c \in Cells \ FeatureSites : grid[c] \in {GRASSLAND, FIELD}

(***************************************************************************)
(* C25.                                                                    *)
(***************************************************************************)
\* C25: every cell that is not fire has the ash-age counter 0, so a cell
\* that turns to ash has its counter back at 0 after the step, and a cell
\* that turns to fire, in setup_game or in spread_fire, has the counter 0
\* after the step.
C25_NonFireCellsHaveZeroAge ==
    /\ [](\A c \in Cells : grid[c] # FIRE => burnt_timers[c] = 0)
    /\ [][\A c \in Cells :
             \/ grid'[c] # FIRE
             \/ grid[c] = FIRE
             \/ burnt_timers'[c] = 0]_vars

\* After an update that spread the fire: a cell has turned to ash, its
\* counter 0, another has aged and a third has just caught fire, its
\* counter 0.
C25_Witness ==
    /\ game_state = GAME_STATE
    /\ spread_ran
    /\ \E a, b, c \in Cells :
          /\ grid[a] = BURNT /\ burnt_timers[a] = 0
          /\ grid[b] = FIRE /\ burnt_timers[b] > 0
          /\ grid[c] = FIRE /\ burnt_timers[c] = 0

(***************************************************************************)
(* C28.                                                                    *)
(***************************************************************************)
\* C28: total_burnable is written by setup_game only, which
\* start_game_from_menu and restart_game call, and zeroed by
\* reset_for_menu; an update and a click leave it alone; while an episode
\* runs, paused or over, it is the number of cells of the grid that are
\* not water.
C28_TotalBurnableIsNonWater ==
    /\ [](game_state # MENU_STATE =>
             total_burnable = CountCells(grid, CellStates \ {WATER}))
    /\ [][\/ total_burnable' = total_burnable
          \/ game_state = MENU_STATE /\ game_state' = GAME_STATE
          \/ game_state' = MENU_STATE /\ total_burnable' = 0
          \/ Restart]_vars
    /\ [][total_burnable' = total_burnable
          \/ ~(UpdateStep \/ ClickStep)]_vars

\* An episode on a grid with a house and five water cells, after the fire
\* and a controlled burn have changed cells: total_burnable is still 4.
C28_Witness ==
    /\ game_state = GAME_STATE
    /\ total_burnable = 4
    /\ controlled_burns_used > 0
    /\ \E c \in Cells : terrain[c] = HOUSE
    /\ \E c \in Cells : grid[c] = BURNT
    /\ \E c \in Cells : grid[c] = CONTROLLED_BURN
    /\ CountCells(grid, {WATER}) = 5

(***************************************************************************)
(* start_controlled_burn followed step by step: op holds the target, the   *)
(* budget burn_size was drawn as and what is left of it, burn_queue, the   *)
(* cell popped from it, the neighbour of that cell the for loop has        *)
(* reached, and the cells in the order they were put in the queue.         *)
(***************************************************************************)
\* Grassland with a house, a water cell and a fire.
Settled ==
    [c \in Cells |->
        IF c = <<0, 0>> THEN HOUSE
        ELSE IF c = <<GRID_WIDTH - 1, 0>> THEN WATER
        ELSE IF c = <<GRID_WIDTH - 1, GRID_HEIGHT - 1>> THEN FIRE
        ELSE GRASSLAND]
BurnScenes == {Settled} \cup Terrains

\* What start_controlled_burn leaves alone.
burnfixed ==
    <<burnt_timers, game_state, game_over, victory, fire_spread_timer,
      fire_spread_delay, difficulty, total_burnable, houses_saved,
      forest_saved, score, terrain, spread_ran, fixed_d, age_updates, clock,
      scan>>

\* An episode is running on one of the scenes and no click is handled.
InitBurnCall ==
    /\ terrain \in BurnScenes
    /\ grid = terrain
    /\ burnt_timers = ZeroTimers
    /\ game_state = GAME_STATE
    /\ game_over = FALSE
    /\ victory = FALSE
    /\ fire_spread_timer = 0
    /\ fire_spread_delay = DIFFICULTY_NORMAL_SPREAD
    /\ difficulty = "Normal"
    /\ total_burnable = TotalBurnable(terrain)
    /\ controlled_burns_used = 0
    /\ houses_saved = 0
    /\ forest_saved = <<0, 1>>
    /\ score = NO_SCORE
    /\ spread_ran = FALSE
    /\ fixed_d = 0
    /\ age_updates = ZeroTimers
    /\ clock = ZeroClock
    /\ scan = <<>>
    /\ op = [pc |-> "idle", target |-> <<0, 0>>, budget |-> 0, size |-> 0,
             queue |-> <<>>, cur |-> <<0, 0>>, i |-> 0, enq |-> <<>>]

\* start_controlled_burn(x, y) up to its loop, inside telling whether
\* (x, y) is on the grid: a target off the grid or on the exclusion list
\* ends the call; any other turns to controlled burn, is queued and the
\* budget is drawn as random.randint(10, 20).
BurnBeginOn(inside, x, y) ==
    /\ op.pc = "idle"
    /\ IF inside /\ grid[<<x, y>>] \notin NoBurnOn
       THEN /\ grid' = SetCell(grid, <<x, y>>, CONTROLLED_BURN)
            /\ controlled_burns_used' = controlled_burns_used + 1
            /\ \E b \in BurnSizes :
                  op' = [op EXCEPT !.pc = "head", !.target = <<x, y>>,
                                   !.budget = b, !.size = b,
                                   !.queue = << <<x, y>> >>,
                                   !.enq = << <<x, y>> >>]
       ELSE /\ op' = [op EXCEPT !.pc = "done"]
            /\ UNCHANGED <<grid, controlled_burns_used>>
    /\ UNCHANGED burnfixed

BurnBegin(x, y) == BurnBeginOn(InGrid(x, y), x, y)

\* "while burn_queue and burn_size > 0" holds: the head of the queue is
\* popped.
BurnPop ==
    /\ op.pc = "head"
    /\ op.queue # <<>>
    /\ op.size > 0
    /\ op' = [op EXCEPT !.cur = Head(op.queue), !.queue = Tail(op.queue),
                        !.i = 1, !.pc = "scan"]
    /\ UNCHANGED <<grid, controlled_burns_used, burnfixed>>

\* A variant that lacks the test "and burn_size > 0" of a neighbour.
BurnNeighborNoBudget(ns) ==
    /\ op.pc = "scan"
    /\ LET n == ns[op.i]
           pc1 == IF op.i = Len(ns) THEN "head" ELSE "scan"
       IN  \E b \in Draw(FLAMMABILITY[grid[n]] * 4, 100) :
              IF grid[n] \notin NoBurnOn /\ b
              THEN /\ grid' = SetCell(grid, n, CONTROLLED_BURN)
                   /\ op' = [op EXCEPT !.queue = Append(op.queue, n),
                                       !.enq = Append(op.enq, n),
                                       !.size = op.size - 1,
                                       !.i = op.i + 1, !.pc = pc1]
              ELSE /\ grid' = grid
                   /\ op' = [op EXCEPT !.i = op.i + 1, !.pc = pc1]
    /\ UNCHANGED <<controlled_burns_used, burnfixed>>

\* One neighbour of the popped cell, ns being what get_neighbors returned
\* for that cell: it turns to controlled burn, is queued and takes one off
\* the budget when it is not on the exclusion list, its draw succeeds and
\* budget is left.
BurnNeighborOf(ns) ==
    /\ op.pc = "scan"
    /\ LET n == ns[op.i]
           pc1 == IF op.i = Len(ns) THEN "head" ELSE "scan"
       IN  \E b \in Draw(FLAMMABILITY[grid[n]] * 4, 100) :
              IF grid[n] \notin NoBurnOn /\ b /\ op.size > 0
              THEN /\ grid' = SetCell(grid, n, CONTROLLED_BURN)
                   /\ op' = [op EXCEPT !.queue = Append(op.queue, n),
                                       !.enq = Append(op.enq, n),
                                       !.size = op.size - 1,
                                       !.i = op.i + 1, !.pc = pc1]
              ELSE /\ grid' = grid
                   /\ op' = [op EXCEPT !.i = op.i + 1, !.pc = pc1]
    /\ UNCHANGED <<controlled_burns_used, burnfixed>>

\* A variant whose exclusion list lacks CONTROLLED_BURN.
BurnNeighborAgain ==
    /\ op.pc = "scan"
    /\ LET ns == get_neighbors(op.cur[1], op.cur[2])
           n == ns[op.i]
           pc1 == IF op.i = Len(ns) THEN "head" ELSE "scan"
       IN  \E b \in Draw(FLAMMABILITY[grid[n]] * 4, 100) :
              IF grid[n] \notin (NoBurnOn \ {CONTROLLED_BURN}) /\ b
                 /\ op.size > 0
              THEN /\ grid' = SetCell(grid, n, CONTROLLED_BURN)
                   /\ op' = [op EXCEPT !.queue = Append(op.queue, n),
                                       !.enq = Append(op.enq, n),
                                       !.size = op.size - 1,
                                       !.i = op.i + 1, !.pc = pc1]
              ELSE /\ grid' = grid
                   /\ op' = [op EXCEPT !.i = op.i + 1, !.pc = pc1]
    /\ UNCHANGED <<controlled_burns_used, burnfixed>>

\* One neighbour of the popped cell, on the grid of the game.
BurnNeighbor == BurnNeighborOf(get_neighbors(op.cur[1], op.cur[2]))

\* "while burn_queue and burn_size > 0" fails: the call returns.
BurnEnd ==
    /\ op.pc = "head"
    /\ op.queue = <<>> \/ op.size <= 0
    /\ op' = [op EXCEPT !.pc = "done"]
    /\ UNCHANGED <<grid, controlled_burns_used, burnfixed>>

NextBurnCall ==
    \/ \E x \in ClickXs, y \in ClickYs : BurnBegin(x, y)
    \/ BurnPop
    \/ BurnNeighbor
    \/ BurnEnd

SpecBurnCall == InitBurnCall /\ [][NextBurnCall]_vars

(***************************************************************************)
(* The same call on a grid with room for the largest budget: a grid of     *)
(* TractWidth by TractHeight cells holds more eligible cells than the 21   *)
(* a call can convert.                                                     *)
(***************************************************************************)
TractWidth == 21
TractHeight == 2

\* "0 <= x < GRID_WIDTH and 0 <= y < GRID_HEIGHT" on that grid.
InTract(x, y) == 0 <= x /\ x < TractWidth /\ 0 <= y /\ y < TractHeight

\* get_neighbors on that grid.
tract_neighbors(x, y) ==
    LET all == [i \in 1..8 |-> <<x + Offsets[i][1], y + Offsets[i][2]>>]
        inside(c) == InTract(c[1], c[2])
    IN  SelectSeq(all, inside)

\* A bank of grassland along the first row with a house at its end; the
\* other rows are water but for the grassland of every sixth column.
Heath ==
    [c \in (0..(TractWidth - 1)) \X (0..(TractHeight - 1)) |->
        IF c = <<TractWidth - 1, 0>> THEN HOUSE
        ELSE IF c[2] = 0 \/ c[1] % 6 = 2 THEN GRASSLAND
        ELSE WATER]

\* An episode is running on the heath, with a timer of 0 for each of its
\* cells, and no click is handled.
InitBurnTract ==
    /\ terrain = Heath
    /\ grid = terrain
    /\ burnt_timers = [c \in DOMAIN terrain |-> 0]
    /\ game_state = GAME_STATE
    /\ game_over = FALSE
    /\ victory = FALSE
    /\ fire_spread_timer = 0
    /\ fire_spread_delay = DIFFICULTY_NORMAL_SPREAD
    /\ difficulty = "Normal"
    /\ total_burnable = Cardinality({c \in DOMAIN terrain : terrain[c] # WATER})
    /\ controlled_burns_used = 0
    /\ houses_saved = 0
    /\ forest_saved = <<0, 1>>
    /\ score = NO_SCORE
    /\ spread_ran = FALSE
    /\ fixed_d = 0
    /\ age_updates = [c \in DOMAIN terrain |-> 0]
    /\ clock = ZeroClock
    /\ scan = <<>>
    /\ op = [pc |-> "idle", target |-> <<0, 0>>, budget |-> 0, size |-> 0,
             queue |-> <<>>, cur |-> <<0, 0>>, i |-> 0, enq |-> <<>>]

\* The targets of the call are the cells of the first column, of a column
\* in the middle, of the last column and of the column next off the grid,
\* and the cells next below them.
NextBurnTract ==
    \/ \E x \in {0, TractWidth \div 2, TractWidth - 1, TractWidth},
          y \in 0..TractHeight : BurnBeginOn(InTract(x, y), x, y)
    \/ BurnPop
    \/ BurnNeighborOf(tract_neighbors(op.cur[1], op.cur[2]))
    \/ BurnEnd

SpecBurnTract == InitBurnTract /\ [][NextBurnTract]_vars

(***************************************************************************)
(* C26, C27.                                                               *)
(***************************************************************************)
\* The cells the call has turned to controlled burn.
Converted == {c \in DOMAIN grid : terrain[c] # CONTROLLED_BURN
                                  /\ grid[c] = CONTROLLED_BURN}

\* C26: a call of start_controlled_burn on an eligible target converts the
\* target and at most budget further cells: the budget is between 10 and
\* 20, what is left of it falls by 1 with every further cell converted and
\* never below 0, so that at most 21 cells are converted; nothing is
\* converted once the budget is 0.
C26_BurnWithinBudget ==
    /\ [](op.enq # <<>> =>
             /\ op.budget \in 10..20
             /\ op.size \in 0..op.budget
             /\ grid[op.target] = CONTROLLED_BURN
             /\ Cardinality(Converted) = 1 + (op.budget - op.size)
             /\ Cardinality(Converted) <= 21)
    /\ [][\/ op.pc = "idle"
          \/ grid' = grid /\ op'.size = op.size
          \/ op.size > 0 /\ op'.size = op.size - 1
                         /\ Cardinality({c \in DOMAIN grid :
                                            grid'[c] # grid[c]}) = 1]_vars

\* The call has returned with the largest budget, 20, spent on twenty
\* cells beside the target, 21 cells in all, while a cell next to a
\* converted one is still eligible.
C26_Witness ==
    /\ op.pc = "done"
    /\ op.budget = 20
    /\ op.size = 0
    /\ Cardinality(Converted) = 21
    /\ \E c \in Converted :
          \E n \in Range(tract_neighbors(c[1], c[2])) :
             grid[n] \notin NoBurnOn

\* The steps the call has left at most: every cell that is queued or can
\* still be queued is popped once and has its neighbours tested.
BurnRank(o, g) ==
    LET waiting == Len(o.queue) + CountCells(g, CellStates \ NoBurnOn)
    IN  CASE o.pc = "idle" -> (GRID_WIDTH * GRID_HEIGHT + 1) * 12
          [] o.pc = "head" -> waiting * 12 + 1
          [] o.pc = "scan" -> waiting * 12 + 11 - o.i
          [] OTHER -> 0

\* C27: start_controlled_burn ends, whatever is left of the budget: every
\* step brings the end nearer, a cell is put in the queue only when it is
\* converted and at most once, and the call returns at the first test of
\* the loop that finds the queue empty or the budget 0.
C27_BurnTerminates ==
    /\ [](/\ \A j, k \in 1..Len(op.enq) : op.enq[j] = op.enq[k] => j = k
          /\ Range(op.enq) = Converted
          /\ Range(op.queue) \subseteq Converted)
    /\ [][/\ BurnRank(op', grid') < BurnRank(op, grid)
          /\ (op.pc = "head" /\ (op.queue = <<>> \/ op.size = 0)) =>
                (op'.pc = "done" /\ grid' = grid)]_vars

\* The call has returned with the queue empty and budget left, six cells
\* converted.
C27_Witness ==
    /\ op.pc = "done"
    /\ op.budget = 10
    /\ op.size = 5
    /\ op.queue = <<>>
    /\ Cardinality(Converted) = 6

(***************************************************************************)
(* The classification of the noise pass on its own: two values of          *)
(* math.tanh, in hundredths, are drawn and classified.                     *)
(***************************************************************************)
\* The values tanh gives, in hundredths.
Values == -100..100

InitClassify ==
    /\ grid = DenseGrid
    /\ terrain = DenseGrid
    /\ burnt_timers = ZeroTimers
    /\ game_state = MENU_STATE
    /\ game_over = FALSE
    /\ victory = FALSE
    /\ fire_spread_timer = 0
    /\ fire_spread_delay = DIFFICULTY_NORMAL_SPREAD
    /\ difficulty = "Normal"
    /\ total_burnable = 0
    /\ controlled_burns_used = 0
    /\ houses_saved = 0
    /\ forest_saved = <<0, 1>>
    /\ score = NO_SCORE
    /\ spread_ran = FALSE
    /\ fixed_d = 0
    /\ age_updates = ZeroTimers
    /\ clock = ZeroClock
    /\ scan = <<>>
    /\ \E v, w \in Values :
          op = [pc |-> "value", value |-> v, other |-> w,
                kind |-> FOREST_DENSE, other_kind |-> FOREST_DENSE]

\* The if chain of the noise pass, for both values.
ClassifyValues ==
    /\ op.pc = "value"
    /\ op' = [op EXCEPT !.pc = "kind", !.kind = Classify(op.value),
                        !.other_kind = Classify(op.other)]
    /\ UNCHANGED <<grid, genfixed>>

NextClassify == ClassifyValues

SpecClassify == InitClassify /\ [][NextClassify]_vars

(***************************************************************************)
(* C31.                                                                    *)
(***************************************************************************)
\* The classes of the noise pass from the least values to the greatest.
ClassOrder == <<WATER, FIELD, GRASSLAND, FOREST_LIGHT, FOREST_DENSE>>

\* The place of a class in ClassOrder.
ClassRank(k) == CHOOSE i \in 1..Len(ClassOrder) : ClassOrder[i] = k

\* C31: the noise pass gives a value exactly one of water, field,
\* grassland, light forest and dense forest, by the thresholds -0.4, -0.15,
\* 0.05 and 0.25: water below the first, then field, grassland and light
\* forest up to each next one, dense forest from the last on; a greater
\* value never gets an earlier class, and no value gets house, burnt, fire
\* or controlled burn.
C31_ClassifyByThresholds ==
    op.pc = "kind" =>
        /\ op.kind \in Range(ClassOrder)
        /\ op.kind \notin {HOUSE, BURNT, FIRE, CONTROLLED_BURN}
        /\ op.kind = WATER <=> op.value < -40
        /\ op.kind = FIELD <=> (-40 <= op.value /\ op.value < -15)
        /\ op.kind = GRASSLAND <=> (-15 <= op.value /\ op.value < 5)
        /\ op.kind = FOREST_LIGHT <=> (5 <= op.value /\ op.value < 25)
        /\ op.kind = FOREST_DENSE <=> 25 <= op.value
        /\ op.value <= op.other =>
              ClassRank(op.kind) <= ClassRank(op.other_kind)

\* A value on a threshold and the value just below it: -0.15 is grassland,
\* -0.16 is field.
C31_Witness ==
    /\ op.pc = "kind"
    /\ op.value = -16 /\ op.kind = FIELD
    /\ op.other = -15 /\ op.other_kind = GRASSLAND

(***************************************************************************)
(* C32.                                                                    *)
(***************************************************************************)
\* The update ran spread_fire and its defeat check found less than 15% of
\* total_burnable left: update_controlled_burns, which runs after the
\* check, turns controlled burns to burnt only and leaves the count.
DefeatFired ==
    /\ spread_ran'
    /\ DefeatCheck(grid', total_burnable)

\* C32: an update whose defeat check fires ends with game_over true and
\* victory false, and a defeat stays one until the game is restarted or
\* left for the menu.
C32_DefeatIsFinal ==
    /\ [][\/ game_over' /\ ~victory'
          \/ ~DefeatFired
          \/ ~UpdateStep]_vars
    /\ [][\/ ~(game_over /\ ~victory)
          \/ game_over' /\ ~victory'
          \/ game_state' = MENU_STATE
          \/ Restart]_vars

(***************************************************************************)
(* C34.                                                                    *)
(***************************************************************************)
\* C34: whenever victory is true, no cell of the grid is fire.
C34_VictoryMeansNoFire ==
    victory => ~HasFire(grid)

\* An episode that had fire and ash is won: the game is over, no cell
\* burns and a cell is burnt.
C34_Witness ==
    /\ game_state = GAME_STATE
    /\ game_over
    /\ victory
    /\ ~HasFire(grid)
    /\ \E c \in Cells : grid[c] = BURNT
    /\ \E c \in Cells : grid[c] \notin NotBurnable

(***************************************************************************)
(* One episode with the frames of run(): the loop of run() calls update    *)
(* with dt > 0 in every frame, so a playing update that can be made again  *)
(* and again is made, and the player who pauses resumes.  The game is not  *)
(* restarted and not left for the menu.                                    *)
(***************************************************************************)
PlayingUpdate == \E d \in Deltas : UpdatePlaying(d)

NextEpisode ==
    \/ \E diff \in Difficulties : SetDifficulty(diff)
    \/ StartGame
    \/ PlayingUpdate
    \/ \E x \in ClickXs, y \in ClickYs : Click(x, y)
    \/ Pause
    \/ Resume

SpecEpisode ==
    /\ Init
    /\ [][NextEpisode]_vars
    /\ SF_vars(PlayingUpdate)
    /\ WF_vars(Resume)

(***************************************************************************)
(* C33.                                                                    *)
(***************************************************************************)
\* C33: while playing updates keep being made, every episode comes to
\* game_over, whatever the draws of the fire and whatever controlled burns
\* the player starts.
C33_EpisodeEnds ==
    (game_state = GAME_STATE) ~> game_over

\* An episode is over after the fire spread, cells burnt and the player
\* burnt a cell.
C33_Witness ==
    /\ game_state = GAME_STATE
    /\ game_over
    /\ controlled_burns_used > 0
    /\ Cardinality({c \in Cells : grid[c] = BURNT}) >= 2
    /\ \E c \in Cells : terrain[c] # FIRE /\ grid[c] = BURNT

(***************************************************************************)
(* C35.                                                                    *)
(***************************************************************************)
\* C35: when generate_terrain has finished, houses_total is the number of
\* house cells of the grid: add_clearings, which runs after add_houses,
\* takes no house away.
C35_HousesTotalCountsHouses ==
    /\ [](op.pc = "done" => op.houses_total = CountCells(grid, {HOUSE}))
    /\ [][\A c \in Cells :
             \/ grid[c] # HOUSE
             \/ grid'[c] = HOUSE
             \/ op.pc # "clearings"]_vars

(***************************************************************************)
(* The statistics over episodes: houses_total beside houses_saved.         *)
(***************************************************************************)
\* What generate_terrain can leave in houses_total for the terrain t it
\* left: add_houses counts every house it places, at most 7 clusters of 6,
\* and add_clearings, which runs after it, writes grassland over the cells
\* drawn in the square of offsets
\* range(-clearing_size // 2, clearing_size // 2 + 1), at most -3..2, around
\* a centre that is dense forest when it is drawn, and tests no cell's kind.
\* So the houses lost are grassland cells of t, each within such a square of
\* a cell that is dense forest or grassland in t and is no lost house.
HousesTotals(t) ==
    LET LostHouses ==
            {L \in SUBSET {c \in Cells : t[c] = GRASSLAND} :
                \A l \in L :
                   \E c \in Cells \ L :
                      /\ t[c] \in {FOREST_DENSE, GRASSLAND}
                      /\ l[1] - c[1] \in -3..2
                      /\ l[2] - c[2] \in -3..2}
    IN  {HousesRemaining(t) + Cardinality(L) : L \in LostHouses}
            \cap 0..(7 * 6)

\* __init__: op.houses_total is self.houses_total; op.updated tells that an
\* update of the running episode has called calculate_stats.
InitStats ==
    /\ InitSim
    /\ fixed_d = 0
    /\ age_updates = ZeroTimers
    /\ clock = ZeroClock
    /\ scan = <<>>
    /\ \E h \in HousesTotals(terrain) :
          op = [houses_total |-> h, updated |-> FALSE]

UpdateCounted(d) ==
    /\ update(d)
    /\ op' = [op EXCEPT !.updated = TRUE]
    /\ UNCHANGED <<fixed_d, age_updates, clock, scan>>

RestartCounted ==
    /\ \/ game_state = GAME_STATE /\ game_over
       \/ game_state = PAUSED_STATE
    /\ restart_game
    /\ \E h \in HousesTotals(terrain') :
          op' = [houses_total |-> h, updated |-> FALSE]
    /\ UNCHANGED <<fixed_d, age_updates, clock, scan>>

ResetCounted ==
    /\ game_state = PAUSED_STATE
    /\ reset_for_menu
    /\ \E h \in HousesTotals(terrain') :
          op' = [houses_total |-> h, updated |-> FALSE]
    /\ UNCHANGED <<fixed_d, age_updates, clock, scan>>

NextStats ==
    \/ StartGame
    \/ \E d \in Deltas : UpdateCounted(d)
    \/ \E x \in ClickXs, y \in ClickYs : Click(x, y)
    \/ Pause
    \/ Resume
    \/ RestartCounted
    \/ ResetCounted

SpecStats == InitStats /\ [][NextStats]_vars

\* An episode is running or paused, with total_burnable > 0.
InEpisode == game_state \in {GAME_STATE, PAUSED_STATE} /\ total_burnable > 0

\* houses_saved and forest_saved are not greater after the step than before.
StatsNotIncreased ==
    /\ houses_saved' <= houses_saved
    /\ forest_saved'[1] * forest_saved[2] <= forest_saved[1] * forest_saved'[2]

\* C36: during an episode with total_burnable > 0, forest_saved is within
\* 0..100 and houses_saved is at most houses_total, and an update that
\* follows an update of the same episode leaves neither houses_saved nor
\* forest_saved greater than that update left it.
C36_StatsNeverIncrease ==
    /\ [](InEpisode =>
             /\ 0 <= forest_saved[1]
             /\ forest_saved[1] <= forest_saved[2]
             /\ houses_saved <= op.houses_total)
    /\ [][\/ StatsNotIncreased
          \/ ~(InEpisode /\ op.updated /\ op'.updated)]_vars

\* The same from the episode's first update on: the statistics that
\* restart_game leaves from the episode before are set aside.
C36_StatsOnceUpdated ==
    /\ [](InEpisode /\ op.updated =>
             /\ 0 <= forest_saved[1]
             /\ forest_saved[1] <= forest_saved[2]
             /\ houses_saved <= op.houses_total)
    /\ [][\/ StatsNotIncreased
          \/ ~(InEpisode /\ op.updated /\ op'.updated)]_vars

\* An update of the episode counted no house on a terrain generated with
\* one, which caught fire, and part of the land is left.
C36_HouseLost ==
    /\ InEpisode
    /\ op.updated
    /\ HousesRemaining(terrain) = 1
    /\ op.houses_total = 1
    /\ houses_saved = 0
    /\ forest_saved[1] > 0
    /\ forest_saved[1] < forest_saved[2]

\* The cells a and b differ and lie within one column and one row of each
\* other: each is one of the eight cells around the other.
EightAdjacent(a, b) ==
    /\ a # b
    /\ a[1] - b[1] \in {-1, 0, 1}
    /\ a[2] - b[2] \in {-1, 0, 1}

\* C37: the cells a call of start_controlled_burn on an eligible target has
\* converted form an 8-connected set containing the target: the target is
\* converted first, and every other converted cell is one of the eight
\* cells around a cell converted earlier in the same call.
C37_BurnIsConnected ==
    op.enq # <<>> =>
        /\ op.enq[1] = op.target
        /\ op.target \in Converted
        /\ Range(op.enq) = Converted
        /\ \A k \in 2..Len(op.enq) :
              \E j \in 1..(k - 1) : EightAdjacent(op.enq[j], op.enq[k])

\* The call has returned after converting a cell that is not around the
\* target: it was reached through a cell converted in between.
C37_Witness ==
    /\ op.pc = "done"
    /\ Len(op.enq) >= 3
    /\ \E k \in 2..Len(op.enq) :
          /\ ~EightAdjacent(op.target, op.enq[k])
          /\ \E j \in 2..(k - 1) : EightAdjacent(op.enq[j], op.enq[k])

(***************************************************************************)
(* calculate_stats as a function of its counts, at totals larger than the  *)
(* whole-game model's grid has.                                            *)
(***************************************************************************)
MaxStatCells == 40
MaxStatHouses == 3

\* An episode is running and the scans of calculate_stats have counted: the
\* houses are among the cells that count as remaining.
InitScore ==
    /\ grid = DenseGrid
    /\ terrain = DenseGrid
    /\ burnt_timers = ZeroTimers
    /\ game_state = GAME_STATE
    /\ game_over = FALSE
    /\ victory = FALSE
    /\ fire_spread_timer = 0
    /\ fire_spread_delay = DIFFICULTY_NORMAL_SPREAD
    /\ difficulty = "Normal"
    /\ total_burnable \in 1..MaxStatCells
    /\ controlled_burns_used = 0
    /\ houses_saved = 0
    /\ forest_saved = <<0, 1>>
    /\ score = NO_SCORE
    /\ spread_ran = FALSE
    /\ fixed_d = 0
    /\ age_updates = ZeroTimers
    /\ clock = ZeroClock
    /\ scan = <<>>
    /\ \E r \in 0..total_burnable :
          \E h \in 0..Min(r, MaxStatHouses) :
             op = [pc |-> "counted", houses_rem |-> h, burnable_rem |-> r]

\* Lines 979-982: the three statistics are written.
StatsWrite ==
    /\ op.pc = "counted"
    /\ LET st == calculate_stats(op.houses_rem, op.burnable_rem,
                                 total_burnable, forest_saved)
       IN  /\ houses_saved' = st.houses_saved
           /\ forest_saved' = st.forest_saved
           /\ score' = st.score
    /\ op' = [op EXCEPT !.pc = "done"]
    /\ UNCHANGED <<grid, burnt_timers, game_state, game_over, victory,
                   fire_spread_timer, fire_spread_delay, difficulty,
                   total_burnable, controlled_burns_used, terrain,
                   spread_ran, fixed_d, age_updates, clock, scan>>

SpecScore == InitScore /\ [][StatsWrite]_vars

\* C12: after calculate_stats on an episode with total_burnable > 0,
\* houses_saved is the number of house cells, forest_saved is
\* 100 * (number of cells not water, fire, burnt or controlled-burn)
\* / total_burnable, and score is the integer part of
\* houses_saved * 100 + forest_saved * 10.
C12_ScoreIsIntegerPart ==
    op.pc = "done" =>
        /\ houses_saved = op.houses_rem
        /\ forest_saved[2] > 0
        /\ forest_saved[1] * total_burnable = op.burnable_rem * forest_saved[2]
        /\ score * total_burnable
              <= op.houses_rem * 100 * total_burnable + 1000 * op.burnable_rem
        /\ op.houses_rem * 100 * total_burnable + 1000 * op.burnable_rem
              < (score + 1) * total_burnable

====
